---- MODULE Spec2Model ----
(***************************************************************************)
(* Field-to-element resolution of the template filler:                     *)
(*   src/create_template/create_template.py  update_slide and its tiers    *)
(*   src/create_template/ppt_common.py       the lookup helpers            *)
(* A text is a sequence of one-character strings.  A slide is the sequence *)
(* of its top-level shapes in document order.                              *)
(***************************************************************************)
EXTENDS Integers, Sequences, FiniteSets, TLC

VARIABLES
    slide,      \* the slide's shape tree, mutated in place by update_slide
    schema,     \* schema['fields'] in insertion order
    fi,         \* index of the field the loop of update_slide handles next
    before,     \* the slide as it was when the last handled field started
    touched,    \* elements change_text_to was called on for the last field
    pc,         \* position of the running operation
    args,       \* arguments of the helper being called
    ret,        \* value the helper returned
    dims,       \* prs.slide_width and prs.slide_height
    element,    \* the shape or cell a text replacement is called on
    state,      \* how far update_slide has come with each field of the schema
    prs,        \* the presentation a run loaded, or that loading failed
    saved,      \* the presentations a run has saved, in the order of saving
    position_counters,  \* call_llm_for_meta.position_counters
    meta_info   \* meta_info["fields"]: the items in insertion order

vars ==
    <<slide, schema, fi, before, touched, pc, args, ret, dims, element, state,
      prs, saved, position_counters, meta_info>>

-----------------------------------------------------------------------------
(* Bounds of the model *)

MaxShapes == 3
MaxFields == 2
MaxCount == 4

-----------------------------------------------------------------------------
(* Text primitives: str.lower, str.split, str.strip, str.join *)

UpperChars == <<"A","B","C","D","E","F","G","H","I","J","K","L","M",
                "N","O","P","Q","R","S","T","U","V","W","X","Y","Z">>
LowerChars == <<"a","b","c","d","e","f","g","h","i","j","k","l","m",
                "n","o","p","q","r","s","t","u","v","w","x","y","z">>
DigitChars == <<"0","1","2","3","4","5","6","7","8","9">>

IsSpace(c) == c \in {" ", "\t", "\n", "\r"}
IsDigit(c) == \E d \in 1..Len(DigitChars) : DigitChars[d] = c
DigitVal(c) == (CHOOSE d \in 1..Len(DigitChars) : DigitChars[d] = c) - 1

LowerChar(c) ==
    IF \E u \in 1..Len(UpperChars) : UpperChars[u] = c
    THEN LowerChars[CHOOSE u \in 1..Len(UpperChars) : UpperChars[u] = c]
    ELSE c

\* s.lower()
Lower(s) == [k \in 1..Len(s) |-> LowerChar(s[k])]

\* ''.join(s.split())
RemoveSpace(s) == SelectSeq(s, LAMBDA c : ~IsSpace(c))

\* ''.join(s.lower().split())
Normalize(s) == RemoveSpace(Lower(s))

RECURSIVE LStrip(_)
LStrip(s) == IF s # <<>> /\ IsSpace(Head(s)) THEN LStrip(Tail(s)) ELSE s

RECURSIVE RStrip(_)
RStrip(s) ==
    IF s # <<>> /\ IsSpace(s[Len(s)]) THEN RStrip(SubSeq(s, 1, Len(s) - 1)) ELSE s

\* s.strip()
Strip(s) == RStrip(LStrip(s))

RECURSIVE JoinNL(_)
JoinNL(ps) ==
    IF ps = <<>> THEN <<>>
    ELSE IF Len(ps) = 1 THEN ps[1]
    ELSE ps[1] \o <<"\n">> \o JoinNL(Tail(ps))

\* "\n".join([p.text.strip() for p in text_frame.paragraphs if p.text.strip()])
ShapeText(paras) ==
    JoinNL(SelectSeq([k \in 1..Len(paras) |-> Strip(paras[k])],
                     LAMBDA p : p # <<>>))

-----------------------------------------------------------------------------
(* The document object: shapes, table cells, groups *)

\* a shape with a text frame: an auto shape, a text box, a group member
TextShape(paras, style, w, h) ==
    [kind |-> "TEXT", paras |-> paras, style |-> style, width |-> w,
     height |-> h, rows |-> <<>>, children |-> <<>>]

\* a shape without a text frame
Picture(w, h) ==
    [kind |-> "PICTURE", paras |-> <<>>, style |-> "none", width |-> w,
     height |-> h, rows |-> <<>>, children |-> <<>>]

\* a table cell: a text frame and its font
Cell(paras, style) == [paras |-> paras, style |-> style]

\* MSO_SHAPE_TYPE.TABLE: rows of cells, no text frame of its own
Table(rows) ==
    [kind |-> "TABLE", paras |-> <<>>, style |-> "none", width |-> 80,
     height |-> 40, rows |-> rows, children |-> <<>>]

\* MSO_SHAPE_TYPE.GROUP: ordered children, no text frame of its own
Group(children) ==
    [kind |-> "GROUP", paras |-> <<>>, style |-> "none", width |-> 50,
     height |-> 50, rows |-> <<>>, children |-> children]

\* no text replacement is under way
\* the None load_presentation returns when loading failed
NoPresentation == [loaded |-> FALSE, slides |-> <<>>]

\* meta_info["fields"] = {}: the items of the dict in insertion order
NoMeta == <<>>

NoElement == [has_text_frame |-> FALSE, paragraphs |-> <<>>]

\* hasattr(shape, "text_frame") and shape.text_frame
HasTextFrame(sh) == sh.kind = "TEXT"

RowCount(sh) == Len(sh.rows)
ColumnCount(sh) == IF sh.rows = <<>> THEN 0 ELSE Len(sh.rows[1])

-----------------------------------------------------------------------------
(* create_template.py: change_text_to and the three tiers of update_slide *)

\* text_frame.clear(); one paragraph, one run with new_text; font restored
change_text_to(el, new_text) == [el EXCEPT !.paras = <<new_text>>]

\* a comparison that forgets the normalized one
TextMatchesRawOnly(shape_text, field_name, normalized_field_name) ==
    Lower(shape_text) = Lower(field_name)

\* the comparison every tier of update_slide makes
TextMatches(shape_text, field_name, normalized_field_name) ==
    \/ Normalize(shape_text) = normalized_field_name
    \/ Lower(shape_text) = Lower(field_name)

\* the path of an element of the slide
ShapePath(k) == [tier |-> "shape", top |-> k, sub |-> 0, col |-> 0]
CellPath(k, r, c) == [tier |-> "cell", top |-> k, sub |-> r, col |-> c]
ChildPath(k, j) == [tier |-> "child", top |-> k, sub |-> j, col |-> 0]

\* whether the loop of update_table_cell stops at shape sh
TableCellHit(sh, row, col, field_name, normalized_field_name) ==
    /\ sh.kind = "TABLE"
    /\ RowCount(sh) >= row
    /\ ColumnCount(sh) >= col
    /\ ShapeText(sh.rows[row][col].paras) # <<>>
    /\ TextMatches(ShapeText(sh.rows[row][col].paras), field_name,
                   normalized_field_name)

RECURSIVE FirstTableHit(_, _, _, _, _, _)
FirstTableHit(sl, k, row, col, field_name, normalized_field_name) ==
    IF k > Len(sl) THEN 0
    ELSE IF TableCellHit(sl[k], row, col, field_name, normalized_field_name)
         THEN k
         ELSE FirstTableHit(sl, k + 1, row, col, field_name,
                            normalized_field_name)

update_table_cell(sl, field_name, content, table_info, normalized_field_name) ==
    LET row == table_info.row
        col == table_info.col
        k == FirstTableHit(sl, 1, row, col, field_name, normalized_field_name)
    IN  IF k = 0
        THEN [ok |-> FALSE, slide |-> sl, touched |-> {}]
        ELSE [ok |-> TRUE,
              slide |-> [sl EXCEPT ![k].rows[row][col] =
                                      change_text_to(@, content)],
              touched |-> {CellPath(k, row, col)}]

\* whether the loop of process_regular_shapes stops at shape sh
RegularHit(sh, field_name, normalized_field_name) ==
    /\ sh.kind # "GROUP"
    /\ sh.kind # "TABLE"
    /\ HasTextFrame(sh)
    /\ ShapeText(sh.paras) # <<>>
    /\ TextMatches(ShapeText(sh.paras), field_name, normalized_field_name)

RECURSIVE FirstRegularHit(_, _, _, _)
FirstRegularHit(sl, k, field_name, normalized_field_name) ==
    IF k > Len(sl) THEN 0
    ELSE IF RegularHit(sl[k], field_name, normalized_field_name) THEN k
    ELSE FirstRegularHit(sl, k + 1, field_name, normalized_field_name)

process_regular_shapes(sl, field_name, content, normalized_field_name) ==
    LET k == FirstRegularHit(sl, 1, field_name, normalized_field_name)
    IN  IF k = 0
        THEN [ok |-> FALSE, slide |-> sl, touched |-> {}]
        ELSE [ok |-> TRUE,
              slide |-> [sl EXCEPT ![k] = change_text_to(@, content)],
              touched |-> {ShapePath(k)}]

\* whether the inner loop of process_group_shapes stops at child ch
GroupChildHit(ch, field_name, normalized_field_name) ==
    /\ HasTextFrame(ch)
    /\ ShapeText(ch.paras) # <<>>
    /\ TextMatches(ShapeText(ch.paras), field_name, normalized_field_name)

RECURSIVE FirstChildHit(_, _, _, _)
FirstChildHit(children, j, field_name, normalized_field_name) ==
    IF j > Len(children) THEN 0
    ELSE IF GroupChildHit(children[j], field_name, normalized_field_name)
         THEN j
         ELSE FirstChildHit(children, j + 1, field_name, normalized_field_name)

RECURSIVE FirstGroupHit(_, _, _, _)
FirstGroupHit(sl, k, field_name, normalized_field_name) ==
    IF k > Len(sl) THEN 0
    ELSE IF /\ sl[k].kind = "GROUP"
            /\ FirstChildHit(sl[k].children, 1, field_name,
                             normalized_field_name) # 0
         THEN k
         ELSE FirstGroupHit(sl, k + 1, field_name, normalized_field_name)

process_group_shapes(sl, field_name, content, normalized_field_name) ==
    LET k == FirstGroupHit(sl, 1, field_name, normalized_field_name)
    IN  IF k = 0
        THEN [ok |-> FALSE, slide |-> sl, touched |-> {}]
        ELSE LET j == FirstChildHit(sl[k].children, 1, field_name,
                                    normalized_field_name)
             IN  [ok |-> TRUE,
                  slide |-> [sl EXCEPT ![k].children[j] =
                                          change_text_to(@, content)],
                  touched |-> {ChildPath(k, j)}]

\* a loop body that goes on to the shapes when no table cell matched
update_slide_field_falling_through(sl, f) ==
    LET field_name == f.name
        content == f.role
        normalized_field_name == Normalize(field_name)
        t == update_table_cell(sl, field_name, content, f.table_info,
                               normalized_field_name)
        r == process_regular_shapes(sl, field_name, content,
                                    normalized_field_name)
        g == process_group_shapes(sl, field_name, content,
                                  normalized_field_name)
    IN  IF f.has_table_info /\ t.ok THEN t
        ELSE IF r.ok THEN r
        ELSE g

\* the body of the loop of update_slide for one field
update_slide_field(sl, f) ==
    LET field_name == f.name
        content == f.role
        normalized_field_name == Normalize(field_name)
        t == update_table_cell(sl, field_name, content, f.table_info,
                               normalized_field_name)
        r == process_regular_shapes(sl, field_name, content,
                                    normalized_field_name)
        g == process_group_shapes(sl, field_name, content,
                                  normalized_field_name)
    IN  IF f.has_table_info THEN t
        ELSE IF r.ok THEN r
        ELSE g

-----------------------------------------------------------------------------
(* ppt_common.py: extract_count_from_field_name *)

\* int(count_match.group(1))
RECURSIVE ParseInt(_)
ParseInt(ds) ==
    IF ds = <<>> THEN 0
    ELSE 10 * ParseInt(SubSeq(ds, 1, Len(ds) - 1)) + DigitVal(ds[Len(ds)])

\* where the digits of a match of _(\d+)$ end: "$" is the end of the string,
\* or the place before a newline that ends the string
SuffixEnd(s) ==
    IF s # <<>> /\ s[Len(s)] = "\n" THEN Len(s) - 1 ELSE Len(s)

\* whether _(\d+)$ matches with its "_" at position p
CountMatchAt(s, p) ==
    /\ p < SuffixEnd(s)
    /\ s[p] = "_"
    /\ \A q \in (p + 1)..SuffixEnd(s) : IsDigit(s[q])

\* re.search(r'_(\d+)$', field_name): the leftmost match, 0 when none
CountMatchStart(s) ==
    IF \E p \in 1..Len(s) : CountMatchAt(s, p)
    THEN CHOOSE p \in 1..Len(s) :
            /\ CountMatchAt(s, p)
            /\ \A q \in 1..(p - 1) : ~CountMatchAt(s, q)
    ELSE 0

extract_count_from_field_name(field_name) ==
    LET p == CountMatchStart(field_name)
        clean_field_name == SubSeq(field_name, 1, p - 1)
    IN  IF p # 0
        THEN [field_name |-> clean_field_name,
              normalized_field_name |-> Normalize(clean_field_name),
              expected_count |->
                  ParseInt(SubSeq(field_name, p + 1, SuffixEnd(field_name)))]
        ELSE [field_name |-> field_name,
              normalized_field_name |-> Normalize(field_name),
              expected_count |-> 1]

-----------------------------------------------------------------------------
(* ppt_common.py: find_shape_by_text_with_count *)

\* whether the loop of find_shape_by_text_with_count counts shape sh
CountHit(sh, field_name, normalized_field_name) ==
    /\ HasTextFrame(sh)
    /\ ShapeText(sh.paras) # <<>>
    /\ \/ Normalize(ShapeText(sh.paras)) = normalized_field_name
       \/ Lower(ShapeText(sh.paras)) = Lower(field_name)

RECURSIVE CountFrom(_, _, _, _, _, _)
CountFrom(sl, k, current_count, field_name, normalized_field_name, expected_count) ==
    IF k > Len(sl) THEN [shape |-> 0, count |-> current_count]
    ELSE IF CountHit(sl[k], field_name, normalized_field_name)
         THEN IF current_count + 1 = expected_count
              THEN [shape |-> k, count |-> current_count + 1]
              ELSE CountFrom(sl, k + 1, current_count + 1, field_name,
                             normalized_field_name, expected_count)
         ELSE CountFrom(sl, k + 1, current_count, field_name,
                        normalized_field_name, expected_count)

\* a lookup that stops at the first match whatever ordinal is asked for
find_shape_first_match(sl, field_name, normalized_field_name, expected_count) ==
    CountFrom(sl, 1, 0, field_name, normalized_field_name, 1)

\* a lookup whose counter goes on from the count of the call before
find_shape_carrying_count(sl, field_name, normalized_field_name, expected_count) ==
    CountFrom(sl, 1, ret.count, field_name, normalized_field_name,
              expected_count)

\* returns (shape, current_count); shape 0 is None
find_shape_by_text_with_count(sl, field_name, normalized_field_name, expected_count) ==
    CountFrom(sl, 1, 0, field_name, normalized_field_name, expected_count)

-----------------------------------------------------------------------------
(* ppt_common.py: is_tag_identifier, find_tag_element *)

MAX_TAG_LENGTH == 15
SmallWidthPercent == 20
SmallHeightPercent == 10
FuzzyLength == 10
EditThreshold == 3

k_tag == <<"t","a","g">>
k_label == <<"l","a","b","e","l">>
k_cic == <<"c","i","c">>
k_ui == <<"u","i">>
k_cic_label == <<"c","i","c","_","l","a","b","e","l">>
k_ui_element == <<"u","i","_","e","l","e","m","e","n","t">>

IsPrefix(p, s) == Len(p) <= Len(s) /\ SubSeq(s, 1, Len(p)) = p
Contains(s, p) ==
    \E b \in 0..(Len(s) - Len(p)) : SubSeq(s, b + 1, b + Len(p)) = p

\* any(keyword in str(field_name).lower() for keyword in tag_keywords)
is_tag_identifier(field_name) ==
    \E kw \in {k_tag, k_label, k_cic_label, k_ui_element} :
        Contains(Lower(field_name), kw)

\* re.compile(r'(tag|label|cic|ui)[_\-\s]?\d*').match(s): a match at the start
\* of s; the separator and the digits may both be empty
MatchPattern(s) == \E kw \in {k_tag, k_label, k_cic, k_ui} : IsPrefix(kw, s)

Min3(a, b, c) ==
    IF a <= b /\ a <= c THEN a ELSE IF b <= c THEN b ELSE c

\* the inner loop: current_row for character c1 of s1 (0-based index i)
RECURSIVE LevRow(_, _, _, _)
LevRow(previous_row, current_row, c1, s2) ==
    LET j == Len(current_row)
    IN  IF j > Len(s2) THEN current_row
        ELSE LevRow(previous_row,
                    Append(current_row,
                           Min3(previous_row[j + 1] + 1,
                                current_row[j] + 1,
                                previous_row[j] + (IF c1 # s2[j] THEN 1 ELSE 0))),
                    c1, s2)

RECURSIVE LevRows(_, _, _, _)
LevRows(previous_row, i, s1, s2) ==
    IF i > Len(s1) THEN previous_row[Len(previous_row)]
    ELSE LevRows(LevRow(previous_row, <<i>>, s1[i], s2), i + 1, s1, s2)

levenshtein_distance(s1, s2) ==
    LET a == IF Len(s1) < Len(s2) THEN s2 ELSE s1
        b == IF Len(s1) < Len(s2) THEN s1 ELSE s2
    IN  IF Len(b) = 0 THEN Len(a)
        ELSE LevRows([j \in 1..(Len(b) + 1) |-> j - 1], 1, a, b)

\* a size test that forgets the height
IsSmallWidthOnly(sh, slide_width, slide_height) ==
    sh.width * 100 <= SmallWidthPercent * slide_width

\* is_small = width_percent <= 20 and height_percent <= 10
IsSmall(sh, slide_width, slide_height) ==
    /\ sh.width * 100 <= SmallWidthPercent * slide_width
    /\ sh.height * 100 <= SmallHeightPercent * slide_height

\* the guard both loops of find_tag_element start with
TagCandidate(sh) ==
    /\ HasTextFrame(sh)
    /\ ShapeText(sh.paras) # <<>>
    /\ Len(ShapeText(sh.paras)) <= MAX_TAG_LENGTH

\* an exact test that forgets to lower-case the shape's text
ExactTagHitCaseSensitive(sh, normalized_field_name) ==
    /\ TagCandidate(sh)
    /\ RemoveSpace(ShapeText(sh.paras)) = normalized_field_name

\* first loop: the exact match
ExactTagHit(sh, normalized_field_name) ==
    /\ TagCandidate(sh)
    /\ Normalize(ShapeText(sh.paras)) = normalized_field_name

\* second loop: the pattern match, then the edit distance
FuzzyTagHit(sh, normalized_field_name, slide_width, slide_height) ==
    LET normalized_shape_text == Normalize(ShapeText(sh.paras))
    IN  /\ TagCandidate(sh)
        /\ IsSmall(sh, slide_width, slide_height)
        /\ \/ MatchPattern(normalized_shape_text)
           \/ MatchPattern(normalized_field_name)
           \/ /\ Len(normalized_shape_text) <= FuzzyLength
              /\ Len(normalized_field_name) <= FuzzyLength
              /\ levenshtein_distance(normalized_shape_text,
                                      normalized_field_name) <= EditThreshold

RECURSIVE FirstExactTag(_, _, _)
FirstExactTag(sl, k, normalized_field_name) ==
    IF k > Len(sl) THEN 0
    ELSE IF ExactTagHit(sl[k], normalized_field_name) THEN k
    ELSE FirstExactTag(sl, k + 1, normalized_field_name)

RECURSIVE FirstFuzzyTag(_, _, _, _, _)
FirstFuzzyTag(sl, k, normalized_field_name, slide_width, slide_height) ==
    IF k > Len(sl) THEN 0
    ELSE IF FuzzyTagHit(sl[k], normalized_field_name, slide_width,
                        slide_height)
         THEN k
         ELSE FirstFuzzyTag(sl, k + 1, normalized_field_name, slide_width,
                            slide_height)

\* returns the shape's index, 0 for None
find_tag_element(sl, normalized_field_name, slide_width, slide_height) ==
    IF FirstExactTag(sl, 1, normalized_field_name) # 0
    THEN FirstExactTag(sl, 1, normalized_field_name)
    ELSE FirstFuzzyTag(sl, 1, normalized_field_name, slide_width,
                       slide_height)

-----------------------------------------------------------------------------
(* Inputs: texts, shapes, slides, schema fields *)

t_title == <<"t","i","t","l","e">>
t_Title == <<"T","i","t","l","e">>
t_ti_tle == <<" ","t","i"," ","t","l","e"," ">>
t_title_2 == <<"t","i","t","l","e","_","2">>
t_other == <<"o","t","h","e","r">>
t_rev == <<"r","e","v">>
t_Rev == <<"R","e","v">>
t_rev_2 == <<"r","e","v","_","2">>
t_q3 == <<"Q","3"," ","R","e","s","u","l","t","s">>
t_45 == <<"4","5","%">>

TxtA == TextShape(<<t_title>>, "s1", 60, 10)
TxtB == TextShape(<<t_Title>>, "s2", 60, 10)
TxtC == TextShape(<<t_ti_tle, <<" ">>>>, "s3", 60, 10)
TxtRev == TextShape(<<t_rev>>, "s4", 30, 10)
Pic == Picture(40, 40)
GrpFlat == Group(<<Picture(5, 5), TextShape(<<t_other>>, "s5", 20, 5),
                   TextShape(<<t_Title>>, "s6", 20, 5)>>)
GrpNested == Group(<<Group(<<TextShape(<<t_title>>, "s7", 20, 5)>>)>>)

\* a 3x4 table with the field's text in cells (1,1) and (2,3)
Tbl34 ==
    Table([r \in 1..3 |-> [c \in 1..4 |->
        IF (r = 2 /\ c = 3) \/ (r = 1 /\ c = 1) THEN Cell(<<t_rev>>, "c1")
        ELSE Cell(<<t_other>>, "c2")]])
Tbl34b ==
    Table([r \in 1..3 |-> [c \in 1..4 |->
        IF r = 2 /\ c = 3 THEN Cell(<<t_Rev>>, "c3")
        ELSE Cell(<<>>, "c4")]])
\* a table too small for cell (2,3)
Tbl12 == Table(<<<<Cell(<<t_rev>>, "c5"), Cell(<<t_rev>>, "c6")>>>>)

t_Tag == <<"T","a","g">>
t_tag_wide == <<"T"," ","a"," "," "," "," "," "," "," "," "," "," "," "," ","g">>
t_label1 == <<"L","a","b","e","l"," ","1">>
t_v2 == <<"v","2">>

TagSmall == TextShape(<<t_Tag>>, "g1", 8, 5)
TagWide == TextShape(<<t_tag_wide>>, "g3", 8, 5)
LabelSmall == TextShape(<<t_label1>>, "g4", 10, 10)

ShapePool == {TxtA, TxtB, TxtC, Pic, GrpFlat, GrpNested}
TablePool == {Tbl34, Tbl34b, Tbl12, TxtRev}
LabelPool == {TagSmall, TagWide, LabelSmall}

SeqsUpTo(S, n) == UNION {[1..m -> S] : m \in 1..n}

Slides ==
    SeqsUpTo(ShapePool, MaxShapes) \cup SeqsUpTo(TablePool, MaxShapes)
        \cup SeqsUpTo(LabelPool, MaxShapes)

NoTable == [row |-> 0, col |-> 0]

Field(name, role) ==
    [name |-> name, role |-> role, has_table_info |-> FALSE,
     table_info |-> NoTable]
TableField(name, role, row, col) ==
    [name |-> name, role |-> role, has_table_info |-> TRUE,
     table_info |-> [row |-> row, col |-> col]]

F_title == Field(t_title, t_q3)
F_title_2 == Field(t_title_2, t_q3)
F_rev == TableField(t_Rev, t_45, 2, 3)
F_rev_2 == TableField(t_rev_2, t_45, 2, 3)
F_tag == Field(k_tag, t_v2)

Fields == {F_title, F_title_2, F_rev, F_rev_2, F_tag}

\* schema['fields'] is a dict: its keys are distinct
Schemas ==
    {s \in SeqsUpTo(Fields, MaxFields) :
        \A a, b \in 1..Len(s) : a # b => s[a].name # s[b].name}

NoArgs == [field_name |-> <<>>, normalized_field_name |-> <<>>,
           expected_count |-> 0]
NoRet == [shape |-> 0, count |-> 0]

Dims100 == [slide_width |-> 100, slide_height |-> 100]
DimsWide == [slide_width |-> 400, slide_height |-> 300]

-----------------------------------------------------------------------------
(* update_slide: one action per field of the schema *)

Init ==
    /\ slide \in Slides
    /\ schema \in Schemas
    /\ fi = 1
    /\ before = slide
    /\ touched = {}
    /\ pc = "fields"
    /\ args = NoArgs
    /\ ret = NoRet
    /\ dims = Dims100
    /\ element = NoElement
    /\ state = <<>>
    /\ prs = NoPresentation
    /\ saved = <<>>
    /\ position_counters = <<>>
    /\ meta_info = NoMeta

UpdateField ==
    /\ pc = "fields"
    /\ fi <= Len(schema)
    /\ LET res == update_slide_field(slide, schema[fi])
       IN  /\ slide' = res.slide
           /\ touched' = res.touched
           /\ ret' = [ok |-> res.ok]
    /\ before' = slide
    /\ fi' = fi + 1
    /\ UNCHANGED <<schema, pc, args, dims, element,
                 state, prs, saved, position_counters, meta_info>>

Return ==
    /\ pc = "fields"
    /\ fi > Len(schema)
    /\ pc' = "done"
    /\ UNCHANGED <<slide, schema, fi, before, touched, args, ret, dims, element,
                 state, prs, saved, position_counters, meta_info>>

Next == UpdateField \/ Return

Spec == Init /\ [][Next]_vars

\* the field the last UpdateField handled
Handled == fi > 1
LastField == schema[fi - 1]


-----------------------------------------------------------------------------
(* extract_count_from_field_name, then find_shape_by_text_with_count *)

Digits(n) == IF n < 10 THEN <<DigitChars[n + 1]>>
             ELSE <<DigitChars[(n \div 10) + 1], DigitChars[(n % 10) + 1]>>

\* field keys: a bare name, and names with an ordinal suffix
Keys ==
    {t_title, t_Title, t_other, <<"t","i","t","l","e","_","0","2">>,
     <<"t","_","1","_","2">>, <<"t","i","t","l","e","_">>,
     <<"t","i","t","l","e","_","2","\n">>}
    \cup {t_title \o <<"_">> \o Digits(n) : n \in 0..MaxCount}

TxtEmpty == TextShape(<<<<" ">>>>, "s8", 60, 10)
TxtOther == TextShape(<<t_other>>, "s9", 60, 10)
FindPool == {TxtA, TxtB, TxtC, TxtEmpty, TxtOther, Pic, GrpFlat}

InitFind ==
    /\ slide \in SeqsUpTo(FindPool, MaxShapes)
    /\ schema \in {<<Field(key, <<>>)>> : key \in Keys}
    /\ fi = 1
    /\ before = slide
    /\ touched = {}
    /\ pc = "extract"
    /\ args = NoArgs
    /\ ret = NoRet
    /\ dims = Dims100
    /\ element = NoElement
    /\ state = <<>>
    /\ prs = NoPresentation
    /\ saved = <<>>
    /\ position_counters = <<>>
    /\ meta_info = NoMeta

ExtractCount ==
    /\ pc = "extract"
    /\ args' = extract_count_from_field_name(schema[1].name)
    /\ pc' = "find"
    /\ UNCHANGED <<slide, schema, fi, before, touched, ret, dims, element,
                 state, prs, saved, position_counters, meta_info>>

FindShape ==
    /\ pc = "find"
    /\ ret' = find_shape_by_text_with_count(slide, args.field_name,
                                            args.normalized_field_name,
                                            args.expected_count)
    /\ pc' = "found"
    /\ UNCHANGED <<slide, schema, fi, before, touched, args, dims, element,
                 state, prs, saved, position_counters, meta_info>>

NextFind == ExtractCount \/ FindShape

SpecFind == InitFind /\ [][NextFind]_vars

-----------------------------------------------------------------------------
(* find_shape_by_text_with_count called field after field, slide after     *)
(* slide: current_count is a local of each call                            *)

t_title_3 == <<"t","i","t","l","e","_","3">>

CallPool == {TxtA, TxtB, TxtOther, Pic}
CallKeys == {t_title, t_title_2, t_title_3, t_other}
CallSchemas ==
    {s \in SeqsUpTo({Field(key, <<>>) : key \in CallKeys}, MaxFields) :
        \A a, b \in 1..Len(s) : a # b => s[a].name # s[b].name}

InitCalls ==
    /\ slide \in SeqsUpTo(CallPool, MaxShapes)
    /\ schema \in CallSchemas
    /\ fi = 1
    /\ before = slide
    /\ touched = {}
    /\ pc = "first_slide"
    /\ args = NoArgs
    /\ ret = NoRet
    /\ dims = Dims100
    /\ element = NoElement
    /\ state = <<>>
    /\ prs = NoPresentation
    /\ saved = <<>>
    /\ position_counters = <<>>
    /\ meta_info = NoMeta

\* one resolution: the key is parsed, then looked up on the current slide
ResolveField ==
    /\ pc \in {"first_slide", "next_slide"}
    /\ fi <= Len(schema)
    /\ LET parsed == extract_count_from_field_name(schema[fi].name)
       IN  /\ args' = parsed
           /\ ret' = find_shape_by_text_with_count(
                         slide, parsed.field_name,
                         parsed.normalized_field_name, parsed.expected_count)
    /\ before' = slide
    /\ fi' = fi + 1
    /\ UNCHANGED <<slide, schema, touched, pc, dims, element,
                 state, prs, saved, position_counters, meta_info>>

\* the fields are resolved again on the next slide of the deck
NextSlide ==
    /\ pc = "first_slide"
    /\ fi > Len(schema)
    /\ slide' \in SeqsUpTo(CallPool, 2)
    /\ fi' = 1
    /\ pc' = "next_slide"
    /\ UNCHANGED <<schema, before, touched, args, ret, dims, element,
                 state, prs, saved, position_counters, meta_info>>

NextCalls == ResolveField \/ NextSlide

SpecCalls == InitCalls /\ [][NextCalls]_vars

-----------------------------------------------------------------------------
(* find_tag_element *)

t_note == <<"n","o","t","e">>
t_rag == <<"r","a","g","s">>
t_summary == <<"s","u","m","m","a","r","y">>

TagBig == TextShape(<<t_Tag>>, "g2", 60, 30)
LabelBig == TextShape(<<t_label1>>, "g5", 60, 30)
NoteSmall == TextShape(<<t_note>>, "g6", 20, 10)
NoteTall == TextShape(<<t_note>>, "g7", 20, 11)
RagSmall == TextShape(<<t_rag>>, "g8", 15, 8)
SummarySmall == TextShape(<<t_summary>>, "g9", 15, 8)

TagPool == {TagSmall, TagBig, TagWide, LabelSmall, LabelBig, NoteSmall,
            NoteTall, RagSmall, SummarySmall, Pic}

\* names looked up in the tag tier
TagNames == {k_tag, t_Tag, t_note, <<"n","o","t","e","s">>, t_rev,
             <<"r","e","v","e","n","u","e","_","2","0","2","5">>}

InitTag ==
    /\ slide \in SeqsUpTo(TagPool, MaxShapes)
    /\ schema \in {<<Field(name, t_v2)>> : name \in TagNames}
    /\ fi = 1
    /\ before = slide
    /\ touched = {}
    /\ pc = "tag"
    /\ args = NoArgs
    /\ ret = NoRet
    /\ dims \in {Dims100, DimsWide}
    /\ element = NoElement
    /\ state = <<>>
    /\ prs = NoPresentation
    /\ saved = <<>>
    /\ position_counters = <<>>
    /\ meta_info = NoMeta

FindTag ==
    /\ pc = "tag"
    /\ args' = [field_name |-> schema[1].name,
                normalized_field_name |-> Normalize(schema[1].name),
                expected_count |-> 1]
    /\ ret' = [shape |-> find_tag_element(slide, Normalize(schema[1].name),
                                          dims.slide_width, dims.slide_height),
               count |-> 0]
    /\ pc' = "tagged"
    /\ UNCHANGED <<slide, schema, fi, before, touched, dims, element,
                 state, prs, saved, position_counters, meta_info>>

NextTag == FindTag

SpecTag == InitTag /\ [][NextTag]_vars

-----------------------------------------------------------------------------
(* ppt_common.py: is_special_content, generate_position_key                *)
(* A character outside ASCII is written as its code point, one element of  *)
(* the text.  A position percentage is kept in hundredths of a percent,    *)
(* the two decimals get_shape_position rounds to.                          *)

MaxBucket == 3

\* special_chars
SpecialChars ==
    {"!", "@", "#", "$", "%", "^", "&", "*", "(", ")", "_", "+", "-", "=",
     "[", "]", "{", "}", "|", ";", ":", "'", ",", ".", "<", ">",
     "/", "?", "~", "U+30FB", "U+00D7", "U+00F7", "U+00A9", "U+00AE",
     "U+2122", "U+2103", "U+2116"}

\* Hangul compatibility jamo and Hangul syllables
HangulChars == {"U+3131", "U+D55C", "U+AD6D", "U+C5B4"}
\* letters of other scripts: Cyrillic, CJK
OtherLetters == {"U+0434", "U+043E", "U+043C", "U+65E5"}
\* digits outside ASCII: superscripts
OtherDigits == {"U+00B2", "U+00B3"}

IsLatin(c) ==
    \E u \in 1..Len(UpperChars) : UpperChars[u] = c \/ LowerChars[u] = c

\* c.isdigit()
str_isdigit(c) == IsDigit(c) \/ c \in OtherDigits
\* c.isalpha()
str_isalpha(c) == IsLatin(c) \/ c \in HangulChars \/ c \in OtherLetters
\* U+3131 <= c <= U+318E or U+AC00 <= c <= U+D7A3
InHangulRange(c) == c \in HangulChars

\* a classification that does not trim the text first
is_special_content_untrimmed(text) ==
    IF text = <<>> THEN FALSE
    ELSE IF \A k \in 1..Len(text) : str_isdigit(text[k]) THEN TRUE
    ELSE IF Len(text) < 3 THEN TRUE
    ELSE ~\E k \in 1..Len(text) : str_isalpha(text[k])

is_special_content(text) ==
    LET t == Strip(text)
    IN  IF t = <<>> THEN FALSE
        ELSE IF \A k \in 1..Len(t) : str_isdigit(t[k]) THEN TRUE
        ELSE IF Len(t) < 3 THEN TRUE
        ELSE IF \A k \in 1..Len(t) : t[k] \in SpecialChars \/ IsSpace(t[k])
        THEN TRUE
        ELSE IF ~\E k \in 1..Len(t) : str_isalpha(t[k]) \/ InHangulRange(t[k])
        THEN TRUE
        ELSE FALSE

\* round(percent / 5) for a percentage given in hundredths: Python rounds a
\* tie to the even integer
RoundFifth(p) ==
    LET q == p \div 500
        r == p % 500
    IN  IF r < 250 THEN q
        ELSE IF r > 250 THEN q + 1
        ELSE IF q % 2 = 0 THEN q ELSE q + 1

\* a quantization that truncates
PositionGroupFloor(p) == (p \div 500) * 5

\* round(position[...] / 5) * 5
PositionGroup(p) == RoundFifth(p) * 5

\* str() of a non-negative int
RECURSIVE IntStr(_)
IntStr(n) ==
    IF n < 10 THEN <<DigitChars[n + 1]>>
    ELSE IntStr(n \div 10) \o <<DigitChars[(n % 10) + 1]>>

k_pos == <<"_","_","p","o","s","_">>

\* a key that leaves the top percentage out
generate_position_key_left_only(text, position) ==
    IF is_special_content(text) THEN text
    ELSE text \o k_pos \o IntStr(PositionGroup(position.left_percent))
              \o <<"_">> \o <<"0">>

generate_position_key(text, position) ==
    IF is_special_content(text) THEN text
    ELSE LET left_group == PositionGroup(position.left_percent)
             top_group == PositionGroup(position.top_percent)
         IN  text \o k_pos \o IntStr(left_group) \o <<"_">>
                  \o IntStr(top_group)

t_blank == <<" "," ">>
t_12 == <<" ","1","2"," ">>
t_Q3 == <<"Q","3">>
t_abc == <<" ","a","b","c">>
t_a1 == <<"a","1","!">>
t_dashes == <<"-","-","-">>
t_dash_gap == <<"-"," ","-">>
t_section == <<"U+00A7","U+00A7","U+00A7">>
t_cyrillic == <<"U+0434","U+043E","U+043C">>
t_hangul == <<"U+D55C","U+AD6D","U+C5B4">>
t_squared == <<"U+00B2","U+00B3","U+00B2">>
t_12sq == <<"1","2","U+00B2","+">>

KeyTexts ==
    {<<>>, t_blank, t_12, t_45, t_Q3, t_abc, t_a1, t_dashes, t_dash_gap,
     t_section, t_cyrillic, t_hangul, t_squared, t_12sq, t_title}

\* percentages around the borders of the 5-point groups, in hundredths
LeftPercents ==
    {p \in {500 * b + d : b \in 0..MaxBucket,
                          d \in {-260, -250, -240, 0, 240, 250, 260}} : p >= 0}
TopPercents == {0, 250, 760, 1250}
Positions ==
    [left_percent : LeftPercents, top_percent : TopPercents]

NoKey == [special |-> FALSE, key |-> <<>>, key_after |-> <<>>]

InitKey ==
    /\ slide = <<>>
    /\ schema = <<>>
    /\ fi = 1
    /\ before = <<>>
    /\ touched = {}
    /\ pc = "text"
    /\ \E text \in KeyTexts, position \in Positions :
           args = [text |-> text, position |-> position, moved |-> position]
    /\ ret = NoKey
    /\ dims = Dims100
    /\ element = NoElement
    /\ state = <<>>
    /\ prs = NoPresentation
    /\ saved = <<>>
    /\ position_counters = <<>>
    /\ meta_info = NoMeta

\* is_special_content(text), as call_llm_for_meta asks it
Classify ==
    /\ pc = "text"
    /\ ret' = [ret EXCEPT !.special = is_special_content(args.text)]
    /\ pc' = "classified"
    /\ UNCHANGED <<slide, schema, fi, before, touched, args, dims, element,
                 state, prs, saved, position_counters, meta_info>>

\* generate_position_key(text, pos), which asks is_special_content again
Fingerprint ==
    /\ pc = "classified"
    /\ ret' = [ret EXCEPT !.key = generate_position_key(args.text,
                                                        args.position)]
    /\ pc' = "keyed"
    /\ UNCHANGED <<slide, schema, fi, before, touched, args, dims, element,
                 state, prs, saved, position_counters, meta_info>>

\* the element has moved and its key is generated anew
Refingerprint ==
    /\ pc = "keyed"
    /\ \E moved \in Positions :
           /\ args' = [args EXCEPT !.moved = moved]
           /\ ret' = [ret EXCEPT !.key_after =
                          generate_position_key(args.text, moved)]
    /\ pc' = "rekeyed"
    /\ UNCHANGED <<slide, schema, fi, before, touched, dims, element,
                 state, prs, saved, position_counters, meta_info>>

NextKey == Classify \/ Fingerprint \/ Refingerprint

SpecKey == InitKey /\ [][NextKey]_vars

-----------------------------------------------------------------------------
(* change_text_to: create_template.py, the one update_slide calls, and     *)
(* ppt_common.py, the one apply_text_roles calls with an optional color.   *)
(* A text frame is the sequence of its paragraphs, a paragraph the         *)
(* sequence of its runs; an absent font property is "None".                *)

MaxParagraphs == 2

\* run.font.color: an RGB value, a theme color, a preset color, or none
Rgb(v) == [kind |-> "rgb", value |-> v]
ThemeColor(v) == [kind |-> "theme", value |-> v]
PresetColor(v) == [kind |-> "preset", value |-> v]
NoColor == [kind |-> "absent", value |-> "None"]

\* RGBColor(0, 0, 0)
BlackRgb == Rgb("000000")
\* font_props['color_rgb'] = 0x000000, an int that tests false
BlackInt == [kind |-> "int", value |-> "000000"]
\* font_props['preset_color'] = True: the preset's value is not kept
PresetMark == [kind |-> "preset", value |-> "None"]

Run(text, name, size, bold, italic, color) ==
    [text |-> text, name |-> name, size |-> size, bold |-> bold,
     italic |-> italic, color |-> color]

TextFrame(paragraphs) == [has_text_frame |-> TRUE, paragraphs |-> paragraphs]

\* run.text and run.text.strip()
HasText(run) == Strip(run.text) # <<>>

RECURSIVE AllRuns(_)
AllRuns(paragraphs) ==
    IF paragraphs = <<>> THEN <<>>
    ELSE Head(paragraphs) \o AllRuns(Tail(paragraphs))

TextRuns(paragraphs) == SelectSeq(AllRuns(paragraphs), HasText)

NoFontProps == [found |-> FALSE, name |-> "None", size |-> "None",
                bold |-> "None", italic |-> "None", color |-> NoColor]

\* create_template.py: the color branches of the first run with text
captured_color(color) ==
    IF color.kind = "rgb" THEN color
    ELSE IF color.kind = "theme" THEN color
    ELSE IF color.kind = "preset" THEN PresetMark
    ELSE BlackInt

\* create_template.py: font_props after the search and its fallback
font_props_of(paragraphs) ==
    IF TextRuns(paragraphs) # <<>>
    THEN LET run == TextRuns(paragraphs)[1]
         IN  [found |-> TRUE, name |-> run.name, size |-> run.size,
              bold |-> run.bold, italic |-> run.italic,
              color |-> captured_color(run.color)]
    ELSE IF paragraphs[1] # <<>>
    THEN LET run == paragraphs[1][1]
         IN  [found |-> FALSE, name |-> run.name, size |-> run.size,
              bold |-> run.bold, italic |-> run.italic, color |-> BlackInt]
    ELSE [NoFontProps EXCEPT !.color = BlackInt]

\* ppt_common.py: (r, g, b) of a run with text, or None
safe_get_font_color(run) ==
    IF ~HasText(run) THEN NoColor
    ELSE IF run.color.kind = "rgb" THEN run.color
    ELSE NoColor

\* ppt_common.py: font_props after the search and the setdefault calls
common_font_props_of(paragraphs) ==
    IF TextRuns(paragraphs) # <<>>
    THEN LET run == TextRuns(paragraphs)[1]
         IN  [found |-> TRUE, name |-> run.name, size |-> run.size,
              bold |-> run.bold, italic |-> run.italic,
              color |-> safe_get_font_color(run)]
    ELSE NoFontProps

\* a clear() that empties the first paragraph and keeps the others
clear_first_paragraph(paragraphs) == <<<<>>>> \o Tail(paragraphs)

\* text_frame.clear(): the first paragraph is kept, without its runs
clear(paragraphs) == <<<<>>>>

\* new_paragraph.add_run() and new_run.text = new_text
add_run(paragraphs, run) ==
    [paragraphs EXCEPT ![1] = Append(@, run)]

\* create_template.py: the color the new run is given
restored_color(color) ==
    IF color.kind = "rgb" THEN color
    ELSE IF color.kind = "theme" THEN color
    ELSE BlackRgb

\* a color choice that never takes the caller's color
color_to_use_ignoring(font_color, color) == color

\* ppt_common.py: font_color if font_color is not None else font_props['color']
color_to_use(font_color, color) ==
    IF font_color # NoColor THEN font_color ELSE color

\* a run that is added and never given its text
empty_run_of(new_text, font_props, color) ==
    Run(<<>>, font_props.name, font_props.size, font_props.bold,
        font_props.italic, color)

\* the run written back: name, size, bold, italic set when captured
new_run_of(new_text, font_props, color) ==
    Run(new_text, font_props.name, font_props.size, font_props.bold,
        font_props.italic, color)

NoResult == [status |-> "none", font_props |-> NoFontProps, ok |-> FALSE]

\* create_template.py change_text_to and the True its caller returns next;
\* shape.text_frame raises on a shape that has none, and the exception is
\* logged and dropped
replace_text(el, new_text) ==
    IF ~el.has_text_frame
    THEN [element |-> el, status |-> "caught", font_props |-> NoFontProps,
          ok |-> TRUE]
    ELSE IF el.paragraphs = <<>>
    THEN [element |-> el, status |-> "skipped", font_props |-> NoFontProps,
          ok |-> TRUE]
    ELSE LET font_props == font_props_of(el.paragraphs)
             new_run == new_run_of(new_text, font_props,
                                   restored_color(font_props.color))
         IN  [element |-> [el EXCEPT !.paragraphs =
                                  add_run(clear(el.paragraphs), new_run)],
              status |-> "replaced", font_props |-> font_props, ok |-> TRUE]

\* ppt_common.py change_text_to: the exception is logged and raised again
replace_text_common(el, new_text, font_color) ==
    IF ~el.has_text_frame
    THEN [element |-> el, status |-> "raised", font_props |-> NoFontProps,
          ok |-> FALSE]
    ELSE IF el.paragraphs = <<>>
    THEN [element |-> el, status |-> "skipped", font_props |-> NoFontProps,
          ok |-> TRUE]
    ELSE LET font_props == common_font_props_of(el.paragraphs)
             new_run == new_run_of(new_text, font_props,
                                   color_to_use(font_color, font_props.color))
         IN  [element |-> [el EXCEPT !.paragraphs =
                                  add_run(clear(el.paragraphs), new_run)],
              status |-> "replaced", font_props |-> font_props, ok |-> TRUE]

t_hello == <<"H","i">>
t_lines == <<"a","\n"," ","b">>

RunRed == Run(t_hello, "Arial", "Pt12", "True", "None", Rgb("FF0000"))
RunTheme == Run(t_title, "Calibri", "None", "None", "False",
                ThemeColor("ACCENT_1"))
RunPreset == Run(t_other, "None", "Pt18", "False", "True", PresetColor("red"))
RunPlain == Run(t_rev, "None", "None", "None", "None", NoColor)
RunBlack == Run(t_Tag, "Arial", "Pt12", "None", "None", BlackRgb)
RunBlankBlue == Run(<<" "," ">>, "Times", "Pt10", "True", "True",
                    Rgb("0000FF"))
RunEmpty == Run(<<>>, "Times", "None", "None", "None", ThemeColor("TEXT_1"))

ParagraphPool ==
    {<<>>, <<RunRed>>, <<RunTheme>>, <<RunPreset>>, <<RunPlain>>,
     <<RunBlack>>, <<RunBlankBlue>>, <<RunEmpty>>, <<RunBlankBlue, RunRed>>,
     <<RunTheme, RunRed>>, <<RunEmpty, RunPreset, RunPlain>>}

\* a picture, a text frame without paragraphs, and text frames
ElementPool ==
    {NoElement, TextFrame(<<>>)}
        \cup {TextFrame(ps) : ps \in SeqsUpTo(ParagraphPool, MaxParagraphs)}

NewTexts == {t_q3, t_lines, t_ti_tle, <<>>}
FontColors == {NoColor, Rgb("00FF00"), BlackRgb}

InitText ==
    /\ slide = <<>>
    /\ schema = <<>>
    /\ fi = 1
    /\ before = <<>>
    /\ touched = {}
    /\ pc = "element"
    /\ \E new_text \in NewTexts, font_color \in FontColors :
           args = [new_text |-> new_text, font_color |-> font_color,
                   module |-> "none"]
    /\ ret = NoResult
    /\ dims = Dims100
    /\ element \in ElementPool
    /\ state = <<>>
    /\ prs = NoPresentation
    /\ saved = <<>>
    /\ position_counters = <<>>
    /\ meta_info = NoMeta

\* create_template.change_text_to(shape, new_text)
ChangeText ==
    /\ pc = "element"
    /\ args.font_color = NoColor
    /\ LET res == replace_text(element, args.new_text)
       IN  /\ element' = res.element
           /\ ret' = [status |-> res.status, font_props |-> res.font_props,
                      ok |-> res.ok]
    /\ before' = element
    /\ args' = [args EXCEPT !.module = "create_template"]
    /\ pc' = "changed"
    /\ UNCHANGED <<slide, schema, fi, touched, dims,
                 state, prs, saved, position_counters, meta_info>>

\* ppt_common.change_text_to(shape, new_text, font_color)
ChangeTextCommon ==
    /\ pc = "element"
    /\ LET res == replace_text_common(element, args.new_text, args.font_color)
       IN  /\ element' = res.element
           /\ ret' = [status |-> res.status, font_props |-> res.font_props,
                      ok |-> res.ok]
    /\ before' = element
    /\ args' = [args EXCEPT !.module = "ppt_common"]
    /\ pc' = "changed"
    /\ UNCHANGED <<slide, schema, fi, touched, dims,
                 state, prs, saved, position_counters, meta_info>>

NextText == ChangeText \/ ChangeTextCommon

SpecText == InitText /\ [][NextText]_vars

-----------------------------------------------------------------------------
(* What the properties speak of, stated without the code's loops *)

MinOf(S) == CHOOSE m \in S : \A x \in S : m <= x
\* the k-th element of a set of positions, in document order
KthOf(S, k) == CHOOSE m \in S : Cardinality({x \in S : x <= m}) = k

\* the two comparisons of the specification
Equivalent(text, name) ==
    \/ Normalize(text) = Normalize(name)
    \/ Lower(text) = Lower(name)

\* positions of the text-bearing elements of a sequence of shapes
TextBearing(shapes) ==
    {k \in 1..Len(shapes) :
        shapes[k].kind = "TEXT" /\ ShapeText(shapes[k].paras) # <<>>}

\* slide-level text shapes equivalent to a name
ShapeMatches(sl, name) ==
    {k \in TextBearing(sl) : Equivalent(ShapeText(sl[k].paras), name)}

\* direct text children of a group equivalent to a name
ChildMatches(g, name) ==
    {j \in TextBearing(g.children) :
        Equivalent(ShapeText(g.children[j].paras), name)}

GroupMatches(sl, name) ==
    {k \in 1..Len(sl) :
        sl[k].kind = "GROUP" /\ ChildMatches(sl[k], name) # {}}

\* tables large enough whose cell (row, col) is equivalent to a name
TableMatches(sl, name, row, col) ==
    {k \in 1..Len(sl) :
        /\ sl[k].kind = "TABLE"
        /\ Len(sl[k].rows) >= row
        /\ Len(sl[k].rows[1]) >= col
        /\ ShapeText(sl[k].rows[row][col].paras) # <<>>
        /\ Equivalent(ShapeText(sl[k].rows[row][col].paras), name)}

\* whether a text element equivalent to a name lies in a shape's subtree
RECURSIVE SubtreeMatches(_, _)
SubtreeMatches(sh, name) ==
    \/ /\ sh.kind = "TEXT"
       /\ ShapeText(sh.paras) # <<>>
       /\ Equivalent(ShapeText(sh.paras), name)
    \/ /\ sh.kind = "GROUP"
       /\ \E j \in 1..Len(sh.children) : SubtreeMatches(sh.children[j], name)

DeepGroupMatches(sl, name) ==
    {k \in 1..Len(sl) : sl[k].kind = "GROUP" /\ SubtreeMatches(sl[k], name)}

\* the key of the last handled field, parsed
LastKey == extract_count_from_field_name(LastField.name)
HasSuffix(name) == extract_count_from_field_name(name).field_name # name

-----------------------------------------------------------------------------
(* Properties *)

\* C2: with N text-bearing elements whose normalized text equals the clean
\* name, find_shape_by_text_with_count returns the k-th of them in document
\* order with count k when 1 <= k <= N, and no element with count N when
\* k = N + 1.
C2_OrdinalLookup ==
    pc = "found" =>
        LET M == {k \in TextBearing(slide) :
                     Normalize(ShapeText(slide[k].paras))
                         = args.normalized_field_name}
            N == Cardinality(M)
            k == args.expected_count
        IN  /\ k \in 1..N => ret = [shape |-> KthOf(M, k), count |-> k]
            /\ k = N + 1 => ret = [shape |-> 0, count |-> N]

\* a lookup of the second of several equal texts, found past the first
C2_Witness ==
    /\ pc = "found"
    /\ args.expected_count = 2
    /\ ret.count = 2
    /\ ret.shape > MinOf(ShapeMatches(slide, args.field_name))

\* C7: in the tag tier an exact normalized match among the shapes with at
\* most 15 characters of text wins over every fuzzy candidate: the first such
\* shape in document order is returned whatever its size, and the comparison
\* ignores case.
C7_ExactTagFirst ==
    pc = "tagged" =>
        LET E == {k \in TextBearing(slide) :
                     /\ Len(ShapeText(slide[k].paras)) <= 15
                     /\ Normalize(ShapeText(slide[k].paras))
                            = args.normalized_field_name}
        IN  E # {} => ret.shape = MinOf(E)

\* "tag" resolves to a large shape reading "Tag" that follows a small label
C7_Witness ==
    /\ pc = "tagged"
    /\ args.field_name = k_tag
    /\ ret.shape = 2
    /\ slide[1] = LabelSmall
    /\ slide[2] = TagBig
    /\ ShapeText(slide[2].paras) # args.normalized_field_name

\* whether the first loop of the tag tier found nothing
NoExactTag ==
    \A k \in TextBearing(slide) :
        \/ Len(ShapeText(slide[k].paras)) > 15
        \/ Normalize(ShapeText(slide[k].paras)) # args.normalized_field_name

SmallSize(sh) ==
    /\ sh.width * 100 <= 20 * dims.slide_width
    /\ sh.height * 100 <= 10 * dims.slide_height

\* C8 as stated: a fallback of the tag tier only returns a small shape with
\* at most 15 characters whose own text matches the keyword pattern or is
\* within edit distance 3 of the field name.
C8_AsStated ==
    (pc = "tagged" /\ NoExactTag /\ ret.shape # 0) =>
        LET sh == slide[ret.shape]
            text == Normalize(ShapeText(sh.paras))
        IN  /\ SmallSize(sh)
            /\ Len(ShapeText(sh.paras)) <= 15
            /\ \/ MatchPattern(text)
               \/ levenshtein_distance(text, args.normalized_field_name) <= 3

\* C8 (amended): a fallback of the tag tier only returns a small shape with
\* at most 15 characters of text; its text matches the keyword pattern or is
\* within edit distance 3 of the field name, unless the field name itself
\* matches the keyword pattern, and then any such shape is returned.
C8_FallbackBounded ==
    (pc = "tagged" /\ NoExactTag /\ ret.shape # 0) =>
        LET sh == slide[ret.shape]
            text == Normalize(ShapeText(sh.paras))
        IN  /\ SmallSize(sh)
            /\ Len(ShapeText(sh.paras)) <= 15
            /\ \/ MatchPattern(text)
               \/ levenshtein_distance(text, args.normalized_field_name) <= 3
               \/ MatchPattern(args.normalized_field_name)

\* a fallback that passes over a shape that is too tall and returns the small
\* one after it, by edit distance
C8_Witness ==
    /\ pc = "tagged"
    /\ NoExactTag
    /\ slide[1] = NoteTall
    /\ ret.shape = 2
    /\ slide[2] = NoteSmall
    /\ ~MatchPattern(args.normalized_field_name)

C1_OneElementAtOrdinal ==
    (Handled /\ ~LastField.has_table_info) =>
        LET M == ShapeMatches(before, LastKey.field_name)
            k == LastKey.expected_count
        IN  /\ Cardinality(touched) <= 1
            /\ (Cardinality(M) > 1 /\ k \in 1..Cardinality(M))
                   => touched = {ShapePath(KthOf(M, k))}

\* C3: filling "title_2" on a slide whose shapes A, B, C all read "title"
\* gives B the content, keeps B's style and leaves A and C as they were.
C3_TitleTwoScenario ==
    (Handled /\ LastField = F_title_2 /\ before = <<TxtA, TxtB, TxtC>>) =>
        /\ ShapeText(slide[2].paras) = t_q3
        /\ slide[2].style = TxtB.style
        /\ slide[1] = TxtA
        /\ slide[3] = TxtC

\* C4: a field with table_info {row, col} rewrites cell (row, col), and no
\* other cell, of the table that is the expected_occurrence-th among the
\* tables with at least row rows and col columns whose cell (row, col) reads
\* the field's ordinal-stripped name.
C4_TableCellAtOrdinal ==
    (Handled /\ LastField.has_table_info) =>
        LET row == LastField.table_info.row
            col == LastField.table_info.col
            T == TableMatches(before, LastKey.field_name, row, col)
            k == LastKey.expected_count
        IN  IF k \in 1..Cardinality(T)
            THEN /\ touched = {CellPath(KthOf(T, k), row, col)}
                 /\ \A t \in 1..Len(slide) :
                        \A r \in 1..Len(slide[t].rows) :
                            \A c \in 1..Len(slide[t].rows[r]) :
                                slide[t].rows[r][c] =
                                    IF <<t, r, c>> = <<KthOf(T, k), row, col>>
                                    THEN [before[t].rows[r][c] EXCEPT
                                              !.paras = <<LastField.role>>]
                                    ELSE before[t].rows[r][c]
            ELSE touched = {}

\* C5: for a field without an ordinal suffix that no slide-level shape
\* matches, a matching text element at any nesting depth inside a group is
\* found, and the element rewritten lies in the first top-level group whose
\* subtree holds a match.
C5_NestedGroupSearch ==
    (/\ Handled
     /\ ~LastField.has_table_info
     /\ ~HasSuffix(LastField.name)
     /\ ShapeMatches(before, LastField.name) = {}
     /\ DeepGroupMatches(before, LastField.name) # {})
        => /\ touched # {}
           /\ \A p \in touched :
                  /\ p.tier = "child"
                  /\ p.top = MinOf(DeepGroupMatches(before, LastField.name))

\* C6: the tiers apply in the order table cell, tag/label, slide-level shape,
\* group member, and the first that succeeds decides: a field with table_info
\* rewrites cells only, a tag-like field rewrites the element the tag tier
\* finds, a slide-level shape is rewritten before any group member.
C6_TierOrder ==
    Handled =>
        LET f == LastField
            tag == find_tag_element(before, LastKey.normalized_field_name,
                                    dims.slide_width, dims.slide_height)
        IN  /\ f.has_table_info => \A p \in touched : p.tier = "cell"
            /\ (~f.has_table_info /\ is_tag_identifier(f.name) /\ tag # 0)
                   => touched = {ShapePath(tag)}
            /\ (\E p \in touched : p.tier = "child")
                   => ShapeMatches(before, f.name) = {}

\* C10: a key ending in _<digits> is compared by its clean name: when the
\* slide holds at least expected_occurrence shapes reading the clean name,
\* one of them is rewritten, and a key without such a suffix is compared
\* whole, with expected_occurrence 1.
C10_SuffixStripped ==
    (Handled /\ ~LastField.has_table_info) =>
        LET M == ShapeMatches(before, LastKey.field_name)
        IN  /\ ~HasSuffix(LastField.name)
                => (LastKey.field_name = LastField.name
                        /\ LastKey.expected_count = 1)
            /\ (HasSuffix(LastField.name)
                    /\ LastKey.expected_count \in 1..Cardinality(M))
                => \E k \in M : touched = {ShapePath(k)}

\* what extract_count_from_field_name returns for a key, the update aside
ExtractCountParses ==
    pc # "extract" =>
        LET key == schema[1].name
            n == SuffixEnd(key)
            cut == {p \in 1..(n - 1) :
                       key[p] = "_" /\ \A q \in (p + 1)..n : IsDigit(key[q])}
        IN  IF cut = {}
            THEN args = [field_name |-> key,
                         normalized_field_name |-> Normalize(key),
                         expected_count |-> 1]
            ELSE /\ cut = {Len(args.field_name) + 1}
                 /\ args.field_name = SubSeq(key, 1, Len(args.field_name))
                 /\ args.normalized_field_name = Normalize(args.field_name)
                 /\ args.expected_count =
                        ParseInt(SubSeq(key, Len(args.field_name) + 2, n))

\* what update_slide can tell of the last field: its tiers return a bool
Outcome ==
    IF ret.ok THEN [kind |-> "matched", count |-> 0]
    ELSE [kind |-> "not-found", count |-> 0]

\* C11: every resolution ends in exactly one of matched, found-wrong-ordinal
\* and not-found; when elements match the field's clean name but none is at
\* the requested ordinal, the outcome is found-wrong-ordinal with the number
\* of matches seen, which is positive, and never not-found.
C11_WrongOrdinalReported ==
    (Handled /\ ~LastField.has_table_info) =>
        LET M == ShapeMatches(before, LastKey.field_name)
            k == LastKey.expected_count
        IN  /\ Outcome.kind \in {"matched", "found-wrong-ordinal", "not-found"}
            /\ (M # {} /\ k > Cardinality(M))
                   => Outcome = [kind |-> "found-wrong-ordinal",
                                 count |-> Cardinality(M)]

\* the pair find_shape_by_text_with_count returns tells the three outcomes
\* apart: a shape, no shape with a positive count, no shape with count zero
FindOutcomeDistinct ==
    pc = "found" =>
        LET M == ShapeMatches(slide, args.field_name)
            k == args.expected_count
        IN  /\ (M # {} /\ k > Cardinality(M))
                => (ret.shape = 0 /\ ret.count = Cardinality(M)
                        /\ ret.count > 0)
            /\ M = {} => ret = [shape |-> 0, count |-> 0]

\* C12: the occurrence counter starts at zero for every field and every
\* slide: what a resolution returns is decided by the slide it ran on and
\* its own field, whatever the resolutions before it counted.
C12_CounterResets ==
    (pc \in {"first_slide", "next_slide"} /\ fi > 1) =>
        LET parsed == extract_count_from_field_name(schema[fi - 1].name)
            M == ShapeMatches(before, parsed.field_name)
            k == parsed.expected_count
        IN  ret = IF k \in 1..Cardinality(M)
                  THEN [shape |-> KthOf(M, k), count |-> k]
                  ELSE [shape |-> 0, count |-> Cardinality(M)]

\* "title" was resolved first and counted a match; "title_2" then counts
\* from zero on the same slide and reaches the second shape
C12_Witness ==
    /\ pc = "first_slide"
    /\ fi = 3
    /\ schema[1].name = t_title
    /\ schema[2].name = t_title_2
    /\ slide[1] = TxtA
    /\ ret = [shape |-> 2, count |-> 2]

Abs(n) == IF n < 0 THEN 0 - n ELSE n

\* the character classes the classification is described with
PunctuationOrSymbol(c) == c \in SpecialChars \cup {"U+00A7"}
LatinOrHangul(c) == IsLatin(c) \/ c \in HangulChars
Alphabetic(c) == LatinOrHangul(c) \/ c \in OtherLetters

DigitsOnly(t) == \A k \in 1..Len(t) : str_isdigit(t[k])
PunctuationOnly(t) == \A k \in 1..Len(t) : PunctuationOrSymbol(t[k])

\* C13 as stated: the last alternative counts Latin and Hangul letters only
C13_AsStated ==
    pc # "text" =>
        LET t == Strip(args.text)
        IN  ret.special =
                (/\ t # <<>>
                 /\ \/ DigitsOnly(t)
                    \/ Len(t) < 3
                    \/ PunctuationOnly(t)
                    \/ ~\E k \in 1..Len(t) : LatinOrHangul(t[k]))

\* C13: is_special_content answers for every text: false when the trimmed
\* text is empty, otherwise true exactly when the trimmed text is digits
\* only, or shorter than 3 characters, or punctuation and symbols only, or
\* holds no alphabetic character of any script; a second call on the same
\* text, the one generate_position_key makes, answers the same.
C13_Classification ==
    /\ pc # "text" =>
        LET t == Strip(args.text)
        IN  ret.special =
                (/\ t # <<>>
                 /\ \/ DigitsOnly(t)
                    \/ Len(t) < 3
                    \/ PunctuationOnly(t)
                    \/ ~\E k \in 1..Len(t) : Alphabetic(t[k]))
    /\ pc \in {"keyed", "rekeyed"} => (ret.special <=> ret.key = args.text)

\* three Cyrillic letters are classified as ordinary text, twice
C13_Witness ==
    /\ pc = "keyed"
    /\ args.text = t_cyrillic
    /\ ~ret.special
    /\ ret.key # args.text

\* the points of the 5-point grid
GridPoints == {5 * n : n \in 0..(MaxBucket + 1)}

KeyAt(text, left_bucket, top_bucket) ==
    text \o <<"_","_","p","o","s","_">> \o IntStr(left_bucket) \o <<"_">>
         \o IntStr(top_bucket)

\* C14: the key of a text is the raw text, without a position suffix, when
\* is_special_content holds of it; otherwise it is the text followed by
\* "__pos_", the left bucket, "_" and the top bucket, each bucket a multiple
\* of 5 that lies within half a bucket of the percentage.
C14_KeyFormat ==
    pc \in {"keyed", "rekeyed"} =>
        IF is_special_content(args.text)
        THEN ret.key = args.text
        ELSE \E left_bucket, top_bucket \in GridPoints :
                /\ Abs(100 * left_bucket - args.position.left_percent) <= 250
                /\ Abs(100 * top_bucket - args.position.top_percent) <= 250
                /\ ret.key = KeyAt(args.text, left_bucket, top_bucket)

\* "title" at 7.6% from the left and 2.5% from the top
C14_Witness ==
    /\ pc = "keyed"
    /\ args.text = t_title
    /\ args.position = [left_percent |-> 760, top_percent |-> 250]
    /\ ret.key = KeyAt(t_title, 10, 0)

\* how far the element moved, in hundredths of a percent
MovedLeft == Abs(args.moved.left_percent - args.position.left_percent)
MovedTop == Abs(args.moved.top_percent - args.position.top_percent)

\* C15 as stated: a move of less than 5 points on both axes keeps the key
C15_AsStated ==
    (pc = "rekeyed" /\ MovedLeft < 500 /\ MovedTop < 500)
        => ret.key_after = ret.key

\* C15: the key generated after a move is the same as before when the text
\* is special content, or when on each axis both percentages lie less than
\* 2.5 points from the same grid point; a move of less than 5 points on both
\* axes shifts each bucket by at most one grid step; a move of more than 5
\* points on an axis changes the key of a text that is not special content.
C15_MoveWithinBucket ==
    pc = "rekeyed" =>
        LET special == is_special_content(args.text)
            Near(p, g) == Abs(100 * g - p) < 250
        IN  /\ special => ret.key_after = ret.key
            /\ (\E gl, gt \in GridPoints :
                    /\ Near(args.position.left_percent, gl)
                    /\ Near(args.moved.left_percent, gl)
                    /\ Near(args.position.top_percent, gt)
                    /\ Near(args.moved.top_percent, gt))
                   => ret.key_after = ret.key
            /\ (~special /\ MovedLeft < 500 /\ MovedTop < 500)
                   => \E gl, gt \in GridPoints, dl, dt \in {-5, 0, 5} :
                          /\ ret.key = KeyAt(args.text, gl, gt)
                          /\ gl + dl >= 0
                          /\ gt + dt >= 0
                          /\ ret.key_after = KeyAt(args.text, gl + dl, gt + dt)
            /\ (~special /\ (MovedLeft > 500 \/ MovedTop > 500))
                   => ret.key_after # ret.key

\* a move of 0.2 points across the border of a bucket gives another key
C15_Witness ==
    /\ pc = "rekeyed"
    /\ ~is_special_content(args.text)
    /\ args.position.left_percent = 240
    /\ args.moved.left_percent = 260
    /\ args.moved.top_percent = args.position.top_percent
    /\ ret.key_after # ret.key

\* a text replacement that ran to its end
Replaced == pc = "changed" /\ ret.status = "replaced"

\* the run the element holds after a replacement
NewRun == element.paragraphs[1][1]

\* whether a captured color stands for the color of a run
ColorCaptured(captured, color) ==
    IF color.kind = "absent" THEN captured \in {NoColor, BlackInt, BlackRgb}
    ELSE IF color.kind = "preset" THEN captured.kind = "preset"
    ELSE captured = color

StyleCaptured(font_props, run) ==
    /\ font_props.name = run.name
    /\ font_props.size = run.size
    /\ font_props.bold = run.bold
    /\ font_props.italic = run.italic
    /\ ColorCaptured(font_props.color, run.color)

\* C16: the style kept for the new text is the name, size, bold, italic and
\* color of the first run, in paragraph order, whose text holds a
\* non-whitespace character; without such a run, those of the first run of
\* the first paragraph; without any run, an all-absent style with color
\* black.
C16_StyleCapture ==
    Replaced =>
        LET paragraphs == before.paragraphs
        IN  IF TextRuns(paragraphs) # <<>>
            THEN StyleCaptured(ret.font_props, TextRuns(paragraphs)[1])
            ELSE IF paragraphs[1] # <<>>
            THEN StyleCaptured(ret.font_props, paragraphs[1][1])
            ELSE AllRuns(paragraphs) = <<>> =>
                    /\ ret.font_props.name = "None"
                    /\ ret.font_props.size = "None"
                    /\ ret.font_props.bold = "None"
                    /\ ret.font_props.italic = "None"
                    /\ ret.font_props.color \in {BlackInt, BlackRgb}

\* C17: without a color given by the caller, the new run has the color of
\* the source run when that color is an RGB value or a theme color, same
\* kind and same value, and RGB black when it is a preset color.
C17_ColorReproduced ==
    (Replaced /\ args.font_color = NoColor
        /\ TextRuns(before.paragraphs) # <<>>) =>
        LET color == TextRuns(before.paragraphs)[1].color
        IN  /\ color.kind \in {"rgb", "theme"} => NewRun.color = color
            /\ color.kind = "preset" => NewRun.color = BlackRgb

\* create_template.change_text_to alone keeps RGB and theme colors
ColorReproducedByCreateTemplate ==
    (Replaced /\ args.module = "create_template"
        /\ TextRuns(before.paragraphs) # <<>>) =>
        LET color == TextRuns(before.paragraphs)[1].color
        IN  /\ color.kind \in {"rgb", "theme"} => NewRun.color = color
            /\ color.kind \in {"preset", "absent"} => NewRun.color = BlackRgb

\* C18: after a replacement that ran to its end the element holds exactly
\* one paragraph with exactly one run, and the text of that run is new_text,
\* whatever paragraphs and runs the element held before.
C18_OneParagraphOneRun ==
    Replaced =>
        /\ Len(element.paragraphs) = 1
        /\ Len(element.paragraphs[1]) = 1
        /\ NewRun.text = args.new_text

\* two paragraphs with three runs are replaced by a text of two lines
C18_Witness ==
    /\ Replaced
    /\ Len(before.paragraphs) = 2
    /\ Len(AllRuns(before.paragraphs)) >= 3
    /\ args.new_text = t_lines
    /\ NewRun.text = t_lines

\* C19: the new run gets the caller's color whenever one is given, otherwise
\* the color reconstructed from the original run, and black when there is
\* neither.
C19_ColorPriority ==
    Replaced =>
        LET runs == TextRuns(before.paragraphs)
        IN  NewRun.color =
                IF args.font_color # NoColor THEN args.font_color
                ELSE IF runs # <<>> /\ runs[1].color.kind \in {"rgb", "theme"}
                THEN runs[1].color
                ELSE BlackRgb

\* C20: an exception raised while an element's text is replaced is caught
\* inside the replacement and ends as a failure result for that field: it
\* never reaches the caller.
C20_FailureContained ==
    pc = "changed" =>
        /\ ret.status # "raised"
        /\ ret.status = "caught" => ~ret.ok

-----------------------------------------------------------------------------
(* update_slide, one step at a time: the loop takes a field, the tiers     *)
(* look for its element, change_text_to is called on the element found and *)
(* returns, and the loop goes on with the next field.                      *)

StepPool == {TxtA, Pic, GrpFlat, Tbl34}
StepFields == {F_title, F_rev, F_tag}

StepSchemas ==
    {s \in SeqsUpTo(StepFields, MaxFields) :
        \A a, b \in 1..Len(s) : a # b => s[a].name # s[b].name}

\* a loop that takes the same field again
same_field(i) == i

\* for field_name in schema['fields']: the field after field i
next_field(i) == i + 1

InitSteps ==
    /\ slide \in SeqsUpTo(StepPool, MaxShapes)
    /\ schema \in StepSchemas
    /\ fi = 1
    /\ before = slide
    /\ touched = {}
    /\ pc = "fields"
    /\ args = NoArgs
    /\ ret = NoRet
    /\ dims = Dims100
    /\ element = NoElement
    /\ state = [i \in 1..Len(schema) |-> "PENDING"]
    /\ prs = NoPresentation
    /\ saved = <<>>
    /\ position_counters = <<>>
    /\ meta_info = NoMeta

\* the loop takes field fi and calls the first tier
StartField ==
    /\ pc = "fields"
    /\ fi <= Len(schema)
    /\ state' = [state EXCEPT ![fi] = "RESOLVING"]
    /\ before' = slide
    /\ touched' = {}
    /\ pc' = "resolving"
    /\ UNCHANGED <<slide, schema, fi, args, ret, dims, element, prs, saved,
                   position_counters, meta_info>>

\* the tiers compare texts until one matches or the last tier is through
ResolveStep ==
    /\ pc = "resolving"
    /\ LET res == update_slide_field(slide, schema[fi])
       IN  /\ state' = [state EXCEPT
                           ![fi] = IF res.ok THEN "RESOLVED" ELSE "UNRESOLVED"]
           /\ touched' = res.touched
           /\ pc' = IF res.ok THEN "resolved" ELSE "fields"
           /\ fi' = IF res.ok THEN fi ELSE next_field(fi)
    /\ UNCHANGED <<slide, schema, before, args, ret, dims, element, prs, saved,
                   position_counters, meta_info>>

\* the tier calls change_text_to on the element it matched
CallChangeText ==
    /\ pc = "resolved"
    /\ state' = [state EXCEPT ![fi] = "MUTATING"]
    /\ pc' = "mutating"
    /\ UNCHANGED <<slide, schema, fi, before, touched, args, ret, dims, element,
                   prs, saved, position_counters, meta_info>>

\* change_text_to returns: the text is replaced, or an exception raised
\* while the font was read is logged and dropped; the tier returns True and
\* the loop goes on
ChangeTextReturns ==
    /\ pc = "mutating"
    /\ \E raised \in BOOLEAN :
           /\ state' = [state EXCEPT
                           ![fi] = IF raised THEN "MUTATION_FAILED"
                                   ELSE "MUTATED"]
           /\ slide' = IF raised THEN slide
                       ELSE update_slide_field(slide, schema[fi]).slide
    /\ ret' = [ok |-> TRUE]
    /\ fi' = next_field(fi)
    /\ pc' = "fields"
    /\ UNCHANGED <<schema, before, touched, args, dims, element, prs, saved,
                   position_counters, meta_info>>

ReturnSteps ==
    /\ pc = "fields"
    /\ fi > Len(schema)
    /\ pc' = "done"
    /\ UNCHANGED <<slide, schema, fi, before, touched, args, ret, dims, element,
                   state, prs, saved, position_counters, meta_info>>

NextSteps ==
    StartField \/ ResolveStep \/ CallChangeText \/ ChangeTextReturns
        \/ ReturnSteps

SpecSteps == InitSteps /\ [][NextSteps]_vars

\* update_slide is one synchronous loop in one thread: until it has returned
\* it moves on to its next position
Running ==
    /\ pc # "done"
    /\ pc' \in {"fields", "resolving", "resolved", "mutating", "done"}
    /\ pc' # pc

FairSteps == SpecSteps /\ WF_pc(Running)

Terminal == {"MUTATED", "MUTATION_FAILED", "UNRESOLVED"}

Transitions ==
    {<<"PENDING", "RESOLVING">>, <<"RESOLVING", "RESOLVED">>,
     <<"RESOLVING", "UNRESOLVED">>, <<"RESOLVED", "MUTATING">>,
     <<"MUTATING", "MUTATED">>, <<"MUTATING", "MUTATION_FAILED">>}

\* C21: every field of the schema moves only along PENDING -> RESOLVING ->
\* (RESOLVED -> MUTATING -> (MUTATED | MUTATION_FAILED)) | UNRESOLVED, so it
\* is attempted once and never leaves a terminal state; a field is started
\* only when all fields before it are terminal; and every field eventually
\* is in a terminal state.
C21_FieldLifecycle ==
    /\ [][\A i \in DOMAIN state :
            state'[i] # state[i] => <<state[i], state'[i]>> \in Transitions]_vars
    /\ [](\A i \in DOMAIN state :
            state[i] # "PENDING" => \A j \in 1..(i - 1) : state[j] \in Terminal)
    /\ \A i \in 1..(MaxFields + 1) :
            <>[](i \in DOMAIN state => state[i] \in Terminal)

\* a pass over two fields ended: the first replacement failed, the second
\* field's text was replaced
C21_Witness ==
    /\ pc = "done"
    /\ Len(state) = 2
    /\ state[1] = "MUTATION_FAILED"
    /\ state[2] = "MUTATED"
    /\ slide # before

-----------------------------------------------------------------------------
(* Reading an element back the way the tiers of update_slide read it *)

\* paragraph.text: the texts of the paragraph's runs, one after the other
RECURSIVE paragraph_text(_)
paragraph_text(runs) ==
    IF runs = <<>> THEN <<>>
    ELSE Head(runs).text \o paragraph_text(Tail(runs))

\* "\n".join([p.text.strip() for p in text_frame.paragraphs if p.text.strip()])
shape_text(el) ==
    ShapeText([k \in 1..Len(el.paragraphs) |->
                  paragraph_text(el.paragraphs[k])])

\* C22 as stated: the text read back after a replacement is new_text, for
\* every new_text.
C22_AsStated ==
    Replaced => shape_text(element) = args.new_text

\* C22: the text read back after a replacement is new_text without its
\* leading and trailing whitespace, so it is new_text exactly when new_text
\* neither starts nor ends with whitespace.
C22_RoundTripTrimmed ==
    Replaced =>
        /\ shape_text(element) = Strip(args.new_text)
        /\ (shape_text(element) = args.new_text
                <=> Strip(args.new_text) = args.new_text)

\* two paragraphs are replaced by a text padded with spaces, and the text
\* read back has lost the padding
C22_Witness ==
    /\ Replaced
    /\ Len(before.paragraphs) = 2
    /\ shape_text(before) # <<>>
    /\ args.new_text = t_ti_tle
    /\ shape_text(element) = <<"t","i"," ","t","l","e">>

\* whether a run has the name, size, bold and italic of another
SameFont(a, b) ==
    /\ a.name = b.name
    /\ a.size = b.size
    /\ a.bold = b.bold
    /\ a.italic = b.italic

\* the run whose font stands for the element's: the first run with text,
\* else the first run of the first paragraph
HasStyleSource(paragraphs) ==
    TextRuns(paragraphs) # <<>> \/ paragraphs[1] # <<>>
StyleSource(paragraphs) ==
    IF TextRuns(paragraphs) # <<>> THEN TextRuns(paragraphs)[1]
    ELSE paragraphs[1][1]

\* a replacement of the element's text by the text it has, without a color
SameTextAgain ==
    /\ Replaced
    /\ args.font_color = NoColor
    /\ args.new_text = shape_text(before)

\* C23: replacing an element's text by its current text, without an
\* override color, leaves font name, size, bold and italic as they were: an
\* absent property stays absent and a false bold or italic stays false.
C23_StyleIdempotent ==
    (SameTextAgain /\ HasStyleSource(before.paragraphs)) =>
        SameFont(NewRun, StyleSource(before.paragraphs))

\* the same holds whenever the element has a run with text, and always in
\* create_template.change_text_to
StyleIdempotentWithText ==
    (SameTextAgain /\ HasStyleSource(before.paragraphs)
        /\ (TextRuns(before.paragraphs) # <<>>
                \/ args.module = "create_template")) =>
        SameFont(NewRun, StyleSource(before.paragraphs))

-----------------------------------------------------------------------------
(* The two runs over a whole document: the script at the end of            *)
(* create_template.py, which updates every slide in place and saves once,  *)
(* and main_run.process_pptx, which saves one single-slide copy per slide. *)

MaxSlides == 3

\* update_slide(slide, schema) from field i on
RECURSIVE update_slide_from(_, _, _)
update_slide_from(sl, fields, i) ==
    IF i > Len(fields) THEN [slide |-> sl, touched |-> {}]
    ELSE LET res == update_slide_field(sl, fields[i])
             rest == update_slide_from(res.slide, fields, i + 1)
         IN  [slide |-> rest.slide,
              touched |-> {[field |-> i, path |-> q] : q \in res.touched}
                              \cup rest.touched]

update_slide(sl, fields) == update_slide_from(sl, fields, 1)

\* sorted(slides_to_delete): ascending
RECURSIVE sorted_ascending(_)
sorted_ascending(S) ==
    IF S = {} THEN <<>>
    ELSE LET m == CHOOSE x \in S : \A y \in S : x <= y
         IN  <<m>> \o sorted_ascending(S \ {m})

\* sorted(slides_to_delete, reverse=True)
RECURSIVE sorted_reverse(_)
sorted_reverse(S) ==
    IF S = {} THEN <<>>
    ELSE LET m == CHOOSE x \in S : \A y \in S : x >= y
         IN  <<m>> \o sorted_reverse(S \ {m})

\* del _sldIdLst[idx] for each idx of order, indices counted from 0; an
\* index past the end raises IndexError
RECURSIVE delete_slides(_, _)
delete_slides(doc, order) ==
    IF order = <<>> THEN doc
    ELSE IF ~doc.loaded \/ Head(order) >= Len(doc.slides) THEN NoPresentation
    ELSE LET idx == Head(order) + 1
             kept == SubSeq(doc.slides, 1, idx - 1)
                        \o SubSeq(doc.slides, idx + 1, Len(doc.slides))
         IN  delete_slides([doc EXCEPT !.slides = kept], Tail(order))

\* single_slide_prs once every slide but slide_idx is deleted
single_slide_prs(doc, slide_idx) ==
    LET slides_to_delete == (0..(Len(doc.slides) - 1)) \ {slide_idx}
    IN  delete_slides(doc, sorted_reverse(slides_to_delete))

\* a test that lets a presentation without slides through
not_prs(p) == ~p.loaded

\* not prs or not prs.slides
not_prs_or_not_slides(p) == ~p.loaded \/ Len(p.slides) = 0

\* load_presentation: None for a path that does not exist or a file that is
\* not a presentation
load_presentation(input) ==
    IF input.file = "pptx" THEN [loaded |-> TRUE, slides |-> input.slides]
    ELSE NoPresentation

RunPool == {<<TxtA>>, <<TxtB, GrpFlat>>, <<Pic>>, <<Tbl34>>}

\* slide k of a document is marked k
Documents ==
    UNION {{[k \in 1..n |-> [sld_id |-> k, shapes |-> f[k]]] :
                f \in [1..n -> RunPool]} : n \in 0..MaxSlides}

Inputs ==
    {[file |-> "missing", slides |-> <<>>], [file |-> "corrupt", slides |-> <<>>]}
        \cup {[file |-> "pptx", slides |-> d] : d \in Documents}

InitRun ==
    /\ slide = <<>>
    /\ schema \in StepSchemas
    /\ fi = 1
    /\ before = <<>>
    /\ touched = {}
    /\ pc = "start"
    /\ \E runner \in {"script", "process_pptx"}, input \in Inputs :
           args = [runner |-> runner, input |-> input, slide_idx |-> 0]
    /\ ret = [raised |-> "None"]
    /\ dims = Dims100
    /\ element = NoElement
    /\ state = <<>>
    /\ prs = NoPresentation
    /\ saved = <<>>
    /\ position_counters = <<>>
    /\ meta_info = NoMeta

\* process_pptx up to the schema: the path is tested, then the meta data
\* are written and read back; a file that is not a presentation may make
\* that step raise
ExtractMeta ==
    /\ pc = "start"
    /\ args.runner = "process_pptx"
    /\ \E meta_raises \in BOOLEAN :
           IF args.input.file = "missing"
           THEN /\ pc' = "raised"
                /\ ret' = [raised |-> "FileNotFoundError"]
           ELSE IF args.input.file = "corrupt" /\ meta_raises
           THEN /\ pc' = "raised"
                /\ ret' = [raised |-> "Exception"]
           ELSE /\ pc' = "schema"
                /\ ret' = ret
    /\ UNCHANGED <<slide, schema, fi, before, touched, args, dims, element,
                   state, prs, saved, position_counters, meta_info>>

\* prs = load_presentation(path) and the test that raises ValueError
LoadPresentation ==
    /\ \/ pc = "start" /\ args.runner = "script"
       \/ pc = "schema"
    /\ prs' = load_presentation(args.input)
    /\ IF not_prs_or_not_slides(load_presentation(args.input))
       THEN /\ pc' = "raised"
            /\ ret' = [raised |-> "ValueError"]
       ELSE /\ pc' = "slides"
            /\ ret' = ret
    /\ UNCHANGED <<slide, schema, fi, before, touched, args, dims, element,
                   state, saved, position_counters, meta_info>>

\* the script: update_slide(slide, template_schema) on the next slide of prs
UpdateInPlace ==
    /\ pc = "slides"
    /\ args.runner = "script"
    /\ args.slide_idx < Len(prs.slides)
    /\ LET k == args.slide_idx + 1
           res == update_slide(prs.slides[k].shapes, schema)
       IN  /\ prs' = [prs EXCEPT !.slides[k].shapes = res.slide]
           /\ touched' = touched \cup
                  {[slide_idx |-> args.slide_idx, field |-> t.field,
                    path |-> t.path] : t \in res.touched}
    /\ args' = [args EXCEPT !.slide_idx = @ + 1]
    /\ UNCHANGED <<slide, schema, fi, before, pc, ret, dims, element, state,
                   saved, position_counters, meta_info>>

\* the script: prs.save(pptx_path) after the last slide
SaveAll ==
    /\ pc = "slides"
    /\ args.runner = "script"
    /\ args.slide_idx >= Len(prs.slides)
    /\ saved' = Append(saved, [name |-> 0, slides |-> prs.slides])
    /\ pc' = "done"
    /\ UNCHANGED <<slide, schema, fi, before, touched, args, ret, dims, element,
                   state, prs, position_counters, meta_info>>

\* process_pptx: one pass of the loop over prs.slides: a fresh copy of the
\* input, the other slides deleted, slides[0] updated, the copy saved
ProcessSlide ==
    /\ pc = "slides"
    /\ args.runner = "process_pptx"
    /\ args.slide_idx < Len(prs.slides)
    /\ LET copy == single_slide_prs(load_presentation(args.input),
                                    args.slide_idx)
       IN  IF ~copy.loaded
           THEN /\ pc' = "raised"
                /\ ret' = [raised |-> "IndexError"]
                /\ UNCHANGED <<touched, saved, args>>
           ELSE LET res == update_slide(copy.slides[1].shapes, schema)
                IN  /\ saved' = Append(saved,
                           [name |-> args.slide_idx + 1,
                            slides |-> [copy.slides EXCEPT
                                           ![1].shapes = res.slide]])
                    /\ touched' = touched \cup
                           {[slide_idx |-> args.slide_idx, field |-> t.field,
                             path |-> t.path] : t \in res.touched}
                    /\ args' = [args EXCEPT !.slide_idx = @ + 1]
                    /\ UNCHANGED <<pc, ret>>
    /\ UNCHANGED <<slide, schema, fi, before, dims, element, state, prs,
                   position_counters, meta_info>>

\* process_pptx returns the output directory
ReturnRun ==
    /\ pc = "slides"
    /\ args.runner = "process_pptx"
    /\ args.slide_idx >= Len(prs.slides)
    /\ pc' = "done"
    /\ UNCHANGED <<slide, schema, fi, before, touched, args, ret, dims, element,
                   state, prs, saved, position_counters, meta_info>>

NextRun ==
    ExtractMeta \/ LoadPresentation \/ UpdateInPlace \/ SaveAll
        \/ ProcessSlide \/ ReturnRun

SpecRun == InitRun /\ [][NextRun]_vars

\* a document that cannot be loaded, or that has no slides
Unloadable(input) == input.file # "pptx" \/ Len(input.slides) = 0

\* C24: for a document that cannot be loaded or has no slides the run ends
\* by raising: it never reaches the loop over the slides, no element is
\* rewritten for any field, and nothing is saved.
C24_FatalBeforeAnyUpdate ==
    Unloadable(args.input) =>
        /\ pc \in {"start", "schema", "raised"}
        /\ touched = {}
        /\ saved = <<>>
        /\ pc = "raised" => ret.raised # "None"

\* a presentation that loads and has no slides made the run raise ValueError
C24_Witness ==
    /\ pc = "raised"
    /\ args.input.file = "pptx"
    /\ prs.loaded
    /\ Len(prs.slides) = 0
    /\ ret.raised = "ValueError"
    /\ saved = <<>>

\* C30: for a presentation with slides process_pptx does not raise and
\* saves one output per slide of the input, in slide order; output i holds exactly one slide, the input's slide i, with the
\* update of update_slide applied to it, and the loaded presentation itself
\* stays as it was read.
C30_OneOutputPerSlide ==
    (args.runner = "process_pptx" /\ ~Unloadable(args.input)
        /\ pc \notin {"start", "schema"}) =>
        /\ pc \in {"slides", "done"}
        /\ Len(saved) = args.slide_idx
        /\ pc = "done" => Len(saved) = Len(args.input.slides)
        /\ prs.slides = args.input.slides
        /\ \A i \in 1..Len(saved) :
               /\ saved[i].name = i
               /\ Len(saved[i].slides) = 1
               /\ saved[i].slides[1].sld_id = i
               /\ saved[i].slides[1].shapes =
                      update_slide(args.input.slides[i].shapes, schema).slide

\* three slides gave three outputs; the second output holds the second
\* slide, rewritten
C30_Witness ==
    /\ args.runner = "process_pptx"
    /\ pc = "done"
    /\ Len(args.input.slides) = 3
    /\ Len(saved) = 3
    /\ saved[2].slides[1].sld_id = 2
    /\ saved[2].slides[1].shapes # args.input.slides[2].shapes
    /\ saved[1].slides[1].shapes = args.input.slides[1].shapes

-----------------------------------------------------------------------------
(* generate_meta.py: extract_meta_info and call_llm_for_meta.  A shape is  *)
(* its text frame, its position in hundredths of a percent, its type name  *)
(* and the answer the language model gives for it.  A dict is the sequence *)
(* of its items in insertion order, or a function from its keys.           *)

k_content == <<"c","o","n","t","e","n","t">>
k_shape == <<"s","h","a","p","e">>
k_element == <<"e","l","e","m","e","n","t">>

\* get_position_category(pos)
get_position_category(pos) ==
    LET vertical ==
            IF pos.top_percent < 2000 THEN "top"
            ELSE IF pos.top_percent < 4000 THEN "upper"
            ELSE IF pos.top_percent < 6000 THEN "middle"
            ELSE IF pos.top_percent < 8000 THEN "lower"
            ELSE "bottom"
        horizontal ==
            IF pos.left_percent < 2000 THEN "far_left"
            ELSE IF pos.left_percent < 4000 THEN "left"
            ELSE IF pos.left_percent < 6000 THEN "center"
            ELSE IF pos.left_percent < 8000 THEN "right"
            ELSE "far_right"
    IN  [vertical |-> vertical, horizontal |-> horizontal]

\* d[key] += 1, with d[key] = 0 first when the key is new
Incremented(d, key) ==
    [k \in DOMAIN d \cup {key} |->
        IF k = key THEN (IF key \in DOMAIN d THEN d[key] ELSE 0) + 1
        ELSE d[k]]

\* base_role.split('_')[-1]
RECURSIVE LastPart(_)
LastPart(s) ==
    IF s = <<>> THEN <<>>
    ELSE IF s[Len(s)] = "_" THEN <<>>
    ELSE Append(LastPart(SubSeq(s, 1, Len(s) - 1)), s[Len(s)])

\* the type_desc of the rule-based branch
type_desc(type_name) ==
    IF type_name = "TEXT_BOX" THEN k_content
    ELSE IF type_name = "AUTO_SHAPE" THEN k_shape
    ELSE k_element

Role(kind, category, text, ordinal) ==
    [kind |-> kind, vertical |-> category.vertical,
     horizontal |-> category.horizontal, text |-> text, ordinal |-> ordinal]

\* the counter a call counts up: none for special content
CounterKey(text, pos, type_name, response) ==
    LET category == get_position_category(pos)
        role_type ==
            IF is_tag_identifier(text) THEN k_tag
            ELSE IF response.kind = "role" THEN LastPart(response.role)
            ELSE IF response.kind = "error" THEN k_content
            ELSE type_desc(type_name)
    IN  <<category.vertical, category.horizontal, role_type>>

\* call_llm_for_meta: the role, and position_counters after the call
call_llm_for_meta(text, pos, type_name, response, counters) ==
    LET category == get_position_category(pos)
        key == CounterKey(text, pos, type_name, response)
        counted == Incremented(counters, key)
    IN  IF is_tag_identifier(text)
        THEN [role |-> Role("tag", category, <<>>, counted[key]),
              counters |-> counted]
        ELSE IF is_special_content(text)
        THEN [role |-> Role("special", category, text, 0),
              counters |-> counters]
        ELSE IF response.kind = "role"
        THEN [role |-> Role("llm", category, response.role, counted[key]),
              counters |-> counted]
        ELSE IF response.kind = "error"
        THEN [role |-> Role("content", category, <<>>, counted[key]),
              counters |-> counted]
        ELSE [role |-> Role("rule", category, type_desc(type_name),
                            counted[key]),
              counters |-> counted]

\* " ".join(paragraph_runs)
RECURSIVE JoinSpace(_)
JoinSpace(ps) ==
    IF ps = <<>> THEN <<>>
    ELSE IF Len(ps) = 1 THEN ps[1]
    ELSE ps[1] \o <<" ">> \o JoinSpace(Tail(ps))

\* extract_text_from_shape(shape)["text"]
extract_text_from_shape(shape) ==
    LET line(runs) ==
            JoinSpace([k \in 1..Len(SelectSeq(runs, HasText)) |->
                          Strip(SelectSeq(runs, HasText)[k].text)])
        lines == [k \in 1..Len(shape.paragraphs) |->
                     line(shape.paragraphs[k])]
    IN  IF ~shape.has_text_frame THEN <<>>
        ELSE JoinNL(SelectSeq(lines, LAMBDA l : l # <<>>))

\* meta_info["fields"][key] = entry
RECURSIVE DictSet(_, _, _)
DictSet(items, key, entry) ==
    IF items = <<>> THEN <<[key |-> key, entry |-> entry]>>
    ELSE IF Head(items).key = key
    THEN <<[key |-> key, entry |-> entry]>> \o Tail(items)
    ELSE <<Head(items)>> \o DictSet(Tail(items), key, entry)

\* f"{position_key}_{text_counts[text]}"
counted_key(position_key, count) == position_key \o <<"_">> \o IntStr(count)

\* one pass of the loop of extract_meta_info
meta_of_shape(shape, st) ==
    LET text == extract_text_from_shape(shape)
        pos == shape.position
        text_counts == Incremented(st.text_counts, text)
        position_key ==
            IF text \in DOMAIN st.text_counts
            THEN counted_key(generate_position_key(text, pos),
                             text_counts[text])
            ELSE generate_position_key(text, pos)
        labeled == call_llm_for_meta(text, pos, shape.type_name,
                                     shape.response, st.counters)
        entry == [original_text |-> text, position |-> pos,
                  role |-> labeled.role, is_tag |-> is_tag_identifier(text)]
    IN  IF ~shape.has_text_frame \/ text = <<>> THEN st
        ELSE [fields |-> DictSet(st.fields, position_key, entry),
              counters |-> labeled.counters,
              text_counts |-> text_counts]

RECURSIVE extract_meta_info_from(_, _, _)
extract_meta_info_from(shapes, k, st) ==
    IF k > Len(shapes) THEN st
    ELSE extract_meta_info_from(shapes, k + 1, meta_of_shape(shapes[k], st))

\* extract_meta_info(slide, ...) in a process whose counters are counters
extract_meta_info(shapes, counters) ==
    extract_meta_info_from(shapes, 1,
        [fields |-> NoMeta, counters |-> counters, text_counts |-> <<>>])

PlainRun(text) == Run(text, "None", "None", "None", "None", NoColor)
NoResponse == [kind |-> "none", role |-> <<>>]
ApiError == [kind |-> "error", role |-> <<>>]
Answer(role) == [kind |-> "role", role |-> role]

MetaShape(paragraphs, left, top, type_name, response) ==
    [has_text_frame |-> TRUE, paragraphs |-> paragraphs,
     position |-> [left_percent |-> left, top_percent |-> top],
     type_name |-> type_name, response |-> response]

t_twelve == <<"1","2">>
t_12_2 == <<"1","2","_","2">>
t_main_title == <<"m","a","i","n","_","t","i","t","l","e">>

M12a == MetaShape(<<<<PlainRun(t_twelve)>>>>, 1000, 1000, "TEXT_BOX", NoResponse)
M12b == MetaShape(<<<<PlainRun(<<" ">>), PlainRun(<<"1","2"," ">>)>>>>,
                  5000, 5000, "TEXT_BOX", NoResponse)
M12_2 == MetaShape(<<<<PlainRun(t_12_2)>>>>, 1000, 9000, "TEXT_BOX",
                   NoResponse)
MTitle == MetaShape(<<<<PlainRun(t_title)>>, <<PlainRun(t_rev)>>>>,
                    1000, 1000, "TEXT_BOX", Answer(t_main_title))
MTitleLow == MetaShape(<<<<PlainRun(t_title)>>, <<PlainRun(t_rev)>>>>,
                       1200, 1100, "AUTO_SHAPE", ApiError)
MTag == MetaShape(<<<<PlainRun(t_Tag)>>>>, 1000, 1000, "AUTO_SHAPE",
                  NoResponse)
MBlank == MetaShape(<<<<PlainRun(<<" ">>)>>>>, 1000, 1000, "TEXT_BOX",
                    NoResponse)
MPicture ==
    [has_text_frame |-> FALSE, paragraphs |-> <<>>,
     position |-> [left_percent |-> 1000, top_percent |-> 1000],
     type_name |-> "PICTURE", response |-> NoResponse]

MetaPool == {M12a, M12b, M12_2, MTitle, MTag, MBlank, MPicture}

\* the slides an earlier call of extract_meta_info in the process was given
EarlierSlides == {<<>>, <<MTag>>, <<MTitle, MTitleLow>>}

NoLocals == [k |-> 0, text_counts |-> <<>>]

\* the module is imported: call_llm_for_meta.position_counters = {}
InitMeta ==
    /\ slide \in SeqsUpTo(MetaPool, MaxShapes)
    /\ schema = <<>>
    /\ fi = 1
    /\ before \in EarlierSlides
    /\ touched = {}
    /\ pc = "earlier"
    /\ args = NoLocals
    /\ ret = NoRet
    /\ dims = Dims100
    /\ element = NoElement
    /\ state = <<>>
    /\ prs = NoPresentation
    /\ saved = <<>>
    /\ position_counters = <<>>
    /\ meta_info = NoMeta

\* extract_meta_info on the slide handled before this one
ExtractEarlier ==
    /\ pc = "earlier"
    /\ position_counters' = extract_meta_info(before, position_counters).counters
    /\ pc' = "slide"
    /\ UNCHANGED <<slide, schema, fi, before, touched, args, ret, dims, element,
                   state, prs, saved, meta_info>>

\* extract_meta_info on the slide: one pass of the loop over slide.shapes
ProcessShape ==
    /\ pc = "slide"
    /\ args.k < Len(slide)
    /\ LET st == meta_of_shape(slide[args.k + 1],
                               [fields |-> meta_info,
                                counters |-> position_counters,
                                text_counts |-> args.text_counts])
       IN  /\ meta_info' = st.fields
           /\ position_counters' = st.counters
           /\ args' = [k |-> args.k + 1, text_counts |-> st.text_counts]
    /\ UNCHANGED <<slide, schema, fi, before, touched, pc, ret, dims, element,
                   state, prs, saved>>

\* return meta_info
ReturnMeta ==
    /\ pc = "slide"
    /\ args.k >= Len(slide)
    /\ pc' = "done"
    /\ UNCHANGED <<slide, schema, fi, before, touched, args, ret, dims, element,
                   state, prs, saved, position_counters, meta_info>>

NextMeta == ExtractEarlier \/ ProcessShape \/ ReturnMeta

SpecMeta == InitMeta /\ [][NextMeta]_vars

\* the roles of the entries, in insertion order
Roles(items) == [k \in 1..Len(items) |-> items[k].entry.role]

\* C25: the roles given to the shapes of a slide are those a process gives
\* that has labeled nothing before: the ordinals do not depend on the slides
\* labeled earlier in the process.
C25_RunsIndependent ==
    pc = "done" => Roles(meta_info) = Roles(extract_meta_info(slide, <<>>).fields)

\* each call by itself is a function of the slide and the counters it
\* starts from
LabelingDeterministic ==
    pc = "done" =>
        meta_info = extract_meta_info(slide,
                        extract_meta_info(before, <<>>).counters).fields

\* the shapes of the slide extract_meta_info makes an entry for
HasOwnText(shape) ==
    shape.has_text_frame /\ extract_text_from_shape(shape) # <<>>

\* how many of the first j shapes carry the text of shape j
OccurrencesUpTo(shapes, j) ==
    Cardinality({i \in 1..j :
        /\ HasOwnText(shapes[i])
        /\ extract_text_from_shape(shapes[i])
              = extract_text_from_shape(shapes[j])})

\* the key the entry of shape j is stored under
KeyOfShape(shapes, j) ==
    LET text == extract_text_from_shape(shapes[j])
        position_key == generate_position_key(text, shapes[j].position)
    IN  IF OccurrencesUpTo(shapes, j) = 1 THEN position_key
        ELSE position_key \o <<"_">> \o IntStr(OccurrencesUpTo(shapes, j))

\* C28: when extract_meta_info returns, meta_info["fields"] has one entry
\* for every shape with non-empty text; the entry of the k-th shape with a
\* text seen before is stored under its position key followed by _k, and
\* holds that shape's text and position: no entry was overwritten.
C28_OwnKeyPerShape ==
    pc = "done" =>
        /\ Len(meta_info) = Cardinality({j \in 1..Len(slide) : HasOwnText(slide[j])})
        /\ \A j \in 1..Len(slide) :
               HasOwnText(slide[j]) =>
                   \E m \in 1..Len(meta_info) :
                       /\ meta_info[m].key = KeyOfShape(slide, j)
                       /\ meta_info[m].entry.original_text
                             = extract_text_from_shape(slide[j])
                       /\ meta_info[m].entry.position = slide[j].position

\* the same holds on every slide on which no two shapes with text are given
\* the same key
OwnKeyWithoutCollision ==
    (pc = "done"
        /\ \A i, j \in 1..Len(slide) :
               (HasOwnText(slide[i]) /\ HasOwnText(slide[j]) /\ i # j)
                   => KeyOfShape(slide, i) # KeyOfShape(slide, j)) =>
        /\ Len(meta_info) = Cardinality({j \in 1..Len(slide) : HasOwnText(slide[j])})
        /\ \A j \in 1..Len(slide) :
               HasOwnText(slide[j]) =>
                   \E m \in 1..Len(meta_info) :
                       /\ meta_info[m].key = KeyOfShape(slide, j)
                       /\ meta_info[m].entry.original_text
                             = extract_text_from_shape(slide[j])
                       /\ meta_info[m].entry.position = slide[j].position

-----------------------------------------------------------------------------
(* update_slide as one call: every field of the schema, in order, on one   *)
(* slide that holds tables, text shapes and groups side by side.           *)

GrpRev == Group(<<Picture(5, 5), TextShape(<<t_Rev>>, "s10", 20, 5)>>)

F_other == Field(t_other, t_Title)

PassPool == {TxtA, TxtRev, GrpFlat, GrpRev, Tbl34}
PassFields == {F_other, F_title, F_rev, F_rev_2}

PassSchemas ==
    {s \in SeqsUpTo(PassFields, MaxFields) :
        \A a, b \in 1..Len(s) : a # b => s[a].name # s[b].name}

InitPass ==
    /\ slide \in SeqsUpTo(PassPool, MaxShapes)
    /\ schema \in PassSchemas
    /\ fi = 1
    /\ before = slide
    /\ touched = {}
    /\ pc = "call"
    /\ args = NoArgs
    /\ ret = NoRet
    /\ dims = Dims100
    /\ element = NoElement
    /\ state = <<>>
    /\ prs = NoPresentation
    /\ saved = <<>>
    /\ position_counters = <<>>
    /\ meta_info = NoMeta

\* update_slide(slide, schema)
UpdateSlide ==
    /\ pc = "call"
    /\ LET res == update_slide(slide, schema)
       IN  /\ slide' = res.slide
           /\ touched' = res.touched
    /\ before' = slide
    /\ fi' = Len(schema) + 1
    /\ pc' = "returned"
    /\ UNCHANGED <<schema, args, ret, dims, element, state, prs, saved,
                   position_counters, meta_info>>

NextPass == UpdateSlide

SpecPass == InitPass /\ [][NextPass]_vars

\* the element of a slide at a path
ElementAt(sl, q) ==
    IF q.tier = "cell" THEN sl[q.top].rows[q.sub][q.col]
    ELSE IF q.tier = "child" THEN sl[q.top].children[q.sub]
    ELSE sl[q.top]

\* whether update_slide was given table fields only
TableFieldsOnly == \A i \in 1..Len(schema) : schema[i].has_table_info

\* C26: for a field with table_info update_slide rewrites table cells only;
\* after a call with such fields alone every shape that is not a table,
\* with every member of every group, is as it was, whether a cell matched
\* or not and whatever the text of those shapes.
C26_TableFieldsTouchCellsOnly ==
    pc = "returned" =>
        /\ \A t \in touched :
               schema[t.field].has_table_info => t.path.tier = "cell"
        /\ TableFieldsOnly =>
               \A k \in 1..Len(slide) :
                   slide[k].kind # "TABLE" => slide[k] = before[k]

\* a table field found no cell, a text shape and a group member read like
\* its name, and nothing was rewritten
C26_Witness ==
    /\ pc = "returned"
    /\ schema = <<F_rev>>
    /\ touched = {}
    /\ ShapeMatches(before, F_rev.name) # {}
    /\ GroupMatches(before, F_rev.name) # {}
    /\ slide = before

\* C27: in one call of update_slide no element is rewritten for two fields,
\* and every rewritten element holds the content of the field it was
\* rewritten for first.
C27_RewrittenOnce ==
    pc = "returned" =>
        \A t, u \in touched :
            /\ (t.path = u.path) => (t.field = u.field)
            /\ (t.path = u.path /\ t.field <= u.field) =>
                   ElementAt(slide, t.path).paras = <<schema[t.field].role>>

\* C29: a tier returns True only when the text of the element it matched
\* was replaced: after a change_text_to that left the element as it was, the
\* tier does not report the field as filled.
C29_TrueOnlyIfReplaced ==
    (pc = "fields" /\ fi > 1 /\ fi <= Len(state) + 1
        /\ state[fi - 1] \in {"MUTATED", "MUTATION_FAILED"}) =>
        (ret.ok => state[fi - 1] = "MUTATED")

\* what the tiers do report: True for every element they matched
TierReportsMatch ==
    (pc = "fields" /\ fi > 1 /\ fi <= Len(state) + 1) =>
        (state[fi - 1] \in {"MUTATED", "MUTATION_FAILED"} => ret.ok)

====
